---------------------------- MODULE Spec2Model ----------------------------
(***************************************************************************)
(* Model of the api_emulator request pipeline: route registry              *)
(* (config_loader.load_configs), route matcher (_match_path_with_params,   *)
(* get_route_config), request orchestrator (RequestHandler.process_request *)
(* with process_webhook / process_redirect / processing_result) and the    *)
(* webhook transport (send_webhook).                                       *)
(*                                                                         *)
(* Python str values are sequences of one-character strings, so that       *)
(* strip, split, replace and "in" are computed character by character.     *)
(* Python dicts are sequences of <<key, value>> pairs in insertion order.  *)
(***************************************************************************)
EXTENDS Integers, Sequences, FiniteSets, TLC

VARIABLES
    \* ---- load_configs (config_loader.py:71-139)
    ld_pc,          \* "idle" | "scan" | "in_file" | "loaded" | "failed"
    routes_dict,    \* routes_dict: ordered path -> RouteConfig
    warnings,       \* logger.warning override records <<path, method>>, in order
    skipped,        \* number of logger.warning/logger.error skip diagnostics
    consumed,       \* what the yaml sources held, in the order it was read
    lookup,         \* last get_route_config call on the loaded Config
    \* ---- _match_path_with_params on its own (config_loader.py:142-170)
    m_route, m_request, m_result,
    \* ---- RequestHandler.process_request (request_handler.py:359-418)
    rq_config,        \* self.config
    rq_request,       \* the request: [path, method, query_params, json, body_text]
    rq_cache,         \* len(rate_limit_cache[key]) within the period, for the request's key
    rq_state,         \* "Idle" | "Received" | "Matched" | "Validated" | "SideEffected"
                      \* | "Rendered" | "Responded" | "Rejected"
    rq_trace,         \* the states entered so far, in order
    rq_route_config,  \* route_config
    rq_params,        \* params
    rq_outcalls,      \* session.post calls issued: [url, data, transport]
    rq_redirect_url,  \* redirect_url
    rq_rendered,      \* result of processing_result
    rq_result,        \* what process_request returned or raised
    \* ---- send_webhook and the try block around it (request_handler.py:863-876)
    wh_pc, wh_url, wh_data, wh_transport, wh_response, wh_raised,
    \* ---- RequestHandler._validate_required_fields on its own (request_handler.py:93-126)
    vd_pc, vd_data, vd_schema, vd_result,
    \* ---- replace_template_vars on its own (template_processor.py:128-146)
    tp_pc, tp_path, tp_data, tp_params, tp_result,
    \* ---- RequestHandler._build_repeat_hierarchy on its own (request_handler.py:449-478)
    hy_pc,          \* "idle" | "build" | "built" | "raised"
    hy_items,       \* items
    hy_done,        \* number of items the for loop has consumed
    hy_hierarchy,   \* hierarchy, or the exception the loop raised
    \* ---- RequestHandler.processing_result with repeat items (request_handler.py:420-447)
    rp_pc, rp_path, rp_response, rp_extra, rp_params,
    rp_hierarchy,   \* what _build_repeat_hierarchy returned or raised
    rp_result,      \* what processing_result returned or raised
    \* ---- the rate_limit wrapper (request_handler.py:35-62)
    rl_clock,       \* time.time(), in ticks of 1/TicksPerSec second
    rl_cache,       \* rate_limit_cache: key -> timestamps
    rl_lock,        \* cache_lock: the request holding it, or 0
    rl_pc,          \* per request: "start" | "timed" | "locked" | "filtered" | "admitted"
                    \* | "returned" | "raised" | "rejected"
    rl_key,         \* per request: key
    rl_now,         \* per request: now
    rl_timestamps,  \* per request: timestamps
    rl_admitted,    \* <<key, tick>> of every request let through, in order
    \* ---- GeneratorId (utils/generators.py:14-40) under concurrent callers
    gi_instances,   \* GeneratorId._instances: name -> object number, 0 when absent
    gi_objs,        \* the GeneratorId objects created: [initialized, dict, ids]
    gi_thread,      \* per thread: [pc, func, name, self, dict, value]
    gi_returns,     \* what the calls returned or raised, in order of return
    \* ---- the stored response template as objects, and the requests that render it
    \* ---- (template_processor.py:100-125, request_handler.py:541-605, 690-718)
    al_pc,          \* "idle" | "loop" | "children" | "merge" | "collect"
    al_heap,        \* the dict and list objects alive, by address
    al_response,    \* MethodConfig.response of the route-method
    al_stored,      \* [heap, response]: the declaration as load_configs left it
    al_req,         \* the request at hand: [item_name, child_name, count, child_count, params]
    al_frame,       \* locals of the call: [parent_result, nested_data, results, outcome]
    \* ---- process environment
    settings        \* settings: [WEBHOOK_URL]

loadVars  == <<ld_pc, routes_dict, warnings, skipped, consumed, lookup>>
matchVars == <<m_route, m_request, m_result>>
serveVars == <<rq_config, rq_request, rq_cache, rq_state, rq_trace, rq_route_config,
               rq_params, rq_outcalls, rq_redirect_url, rq_rendered, rq_result>>
hookVars  == <<wh_pc, wh_url, wh_data, wh_transport, wh_response, wh_raised>>
validVars == <<vd_pc, vd_data, vd_schema, vd_result>>
renderVars == <<tp_pc, tp_path, tp_data, tp_params, tp_result>>
hierVars   == <<hy_pc, hy_items, hy_done, hy_hierarchy>>
repeatVars == <<rp_pc, rp_path, rp_response, rp_extra, rp_params, rp_hierarchy, rp_result>>
limitVars  == <<rl_clock, rl_cache, rl_lock, rl_pc, rl_key, rl_now, rl_timestamps, rl_admitted>>
idsVars    == <<gi_instances, gi_objs, gi_thread, gi_returns>>
aliasVars  == <<al_pc, al_heap, al_response, al_stored, al_req, al_frame>>
lastVars   == <<idsVars, aliasVars>>
firstVars  == <<loadVars, matchVars, serveVars, hookVars>>
others    == <<validVars, renderVars, hierVars, repeatVars, limitVars, lastVars, settings>>
middleVars == <<validVars, renderVars, hierVars, repeatVars, limitVars>>
vars      == <<loadVars, matchVars, serveVars, hookVars, others>>
notLoad   == <<matchVars, serveVars, hookVars, others>>
notMatch  == <<loadVars, serveVars, hookVars, others>>
notServe  == <<loadVars, matchVars, hookVars, others>>
notHook   == <<loadVars, matchVars, serveVars, others>>
notValid  == <<firstVars, renderVars, hierVars, repeatVars, limitVars, lastVars, settings>>
notRender == <<firstVars, validVars, hierVars, repeatVars, limitVars, lastVars>>
notHier   == <<firstVars, validVars, renderVars, repeatVars, limitVars, lastVars, settings>>
notRepeat == <<firstVars, validVars, renderVars, hierVars, limitVars, lastVars>>
notLimit  == <<firstVars, validVars, renderVars, hierVars, repeatVars, lastVars, settings>>
notIds    == <<firstVars, middleVars, aliasVars, settings>>
notAlias  == <<firstVars, middleVars, idsVars, settings>>

\* JSON-like values carry their Python type
None == [t |-> "none"]
StrV(s)  == [t |-> "str", v |-> s]
IntV(n)  == [t |-> "int", v |-> n]
DictV(d) == [t |-> "dict", v |-> d]
ListV(l) == [t |-> "list", v |-> l]
BoolV(b) == [t |-> "bool", v |-> b]

Range(f) == {f[i] : i \in DOMAIN f}
Min(S)   == CHOOSE x \in S : \A y \in S : x <= y
Max(S)   == CHOOSE x \in S : \A y \in S : y <= x

(***************************************************************************)
(* Python str primitives.                                                  *)
(***************************************************************************)
RECURSIVE lstrip(_, _)
lstrip(s, ch) == IF s # <<>> /\ Head(s) = ch THEN lstrip(Tail(s), ch) ELSE s

RECURSIVE rstrip(_, _)
rstrip(s, ch) ==
    IF s # <<>> /\ s[Len(s)] = ch THEN rstrip(SubSeq(s, 1, Len(s) - 1), ch) ELSE s

\* str.strip(ch)
strip(s, ch) == rstrip(lstrip(s, ch), ch)

\* str.split(ch): never empty, "".split("/") = [""]
RECURSIVE split(_, _)
split(s, ch) ==
    IF \A i \in 1..Len(s) : s[i] # ch
    THEN <<s>>
    ELSE LET i == CHOOSE k \in 1..Len(s) :
                      s[k] = ch /\ \A j \in 1..(k - 1) : s[j] # ch
         IN  <<SubSeq(s, 1, i - 1)>> \o split(SubSeq(s, i + 1, Len(s)), ch)

startswith(s, ch) == s # <<>> /\ s[1] = ch
endswith(s, ch)   == s # <<>> /\ s[Len(s)] = ch

(***************************************************************************)
(* Route matcher.                                                          *)
(***************************************************************************)
\* the zip loop of _match_path_with_params from position i on
RECURSIVE MatchSegments(_, _, _)
MatchSegments(route_segments, request_segments, i) ==
    IF i > Len(route_segments) \/ i > Len(request_segments)
    THEN TRUE
    ELSE IF startswith(route_segments[i], "{") /\ endswith(route_segments[i], "}")
         THEN MatchSegments(route_segments, request_segments, i + 1)
         ELSE IF route_segments[i] # request_segments[i]
              THEN FALSE
              ELSE MatchSegments(route_segments, request_segments, i + 1)

\* mutant: the segment-count test is dropped (zip stops at the shorter path)
match_path_no_count(route_path, request_path) ==
    MatchSegments(split(strip(route_path, "/"), "/"),
                  split(strip(request_path, "/"), "/"), 1)

_match_path_with_params(route_path, request_path) ==
    LET route_segments   == split(strip(route_path, "/"), "/")
        request_segments == split(strip(request_path, "/"), "/")
    IN  IF Len(route_segments) # Len(request_segments)
        THEN FALSE
        ELSE MatchSegments(route_segments, request_segments, 1)


(***************************************************************************)
(* Python dict primitives (insertion-ordered).                             *)
(***************************************************************************)
DictHas(d, k)    == \E i \in 1..Len(d) : d[i][1] = k
DictGet(d, k)    == d[CHOOSE i \in 1..Len(d) : d[i][1] = k][2]
DictSet(d, k, v) ==
    IF DictHas(d, k)
    THEN [i \in 1..Len(d) |-> IF d[i][1] = k THEN <<k, v>> ELSE d[i]]
    ELSE Append(d, <<k, v>>)
DictKeys(d)      == [i \in 1..Len(d) |-> d[i][1]]
DictValues(d)    == [i \in 1..Len(d) |-> d[i][2]]

(***************************************************************************)
(* Route registry: load_configs.                                           *)
(***************************************************************************)
\* MethodConfig with the pydantic defaults of config_loader.py:49-55
MethodConfig(method, request_schema, response, webhook, redirect) ==
    [method         |-> method,
     content_type   |-> "application/json",
     request_schema |-> request_schema,
     response       |-> response,
     webhook        |-> webhook,
     redirect       |-> redirect]

RouteConfig(path, methods) == [path |-> path, methods |-> methods]

\* {m.method: m for m in existing_route.methods}
RECURSIVE MethodsByName(_, _)
MethodsByName(methods, acc) ==
    IF methods = <<>> THEN acc
    ELSE MethodsByName(Tail(methods), DictSet(acc, Head(methods).method, Head(methods)))

\* the loop of lines 114-120: returns the merged method map and the warnings
RECURSIVE MergeMethods(_, _, _, _)
MergeMethods(existing_methods, methods, path, warned) ==
    IF methods = <<>>
    THEN [existing_methods |-> existing_methods, warned |-> warned]
    ELSE LET method == Head(methods)
         IN  MergeMethods(DictSet(existing_methods, method.method, method),
                          Tail(methods), path,
                          IF DictHas(existing_methods, method.method)
                          THEN Append(warned, <<path, method.method>>)
                          ELSE warned)

\* mutant: a re-declared path replaces the earlier declaration wholesale
merge_route_replace(rd, route_config) ==
    [routes_dict |-> DictSet(rd, route_config.path, route_config), warned |-> <<>>]

\* lines 109-123: merge one validated RouteConfig into routes_dict
merge_route(rd, route_config) ==
    IF DictHas(rd, route_config.path)
    THEN LET existing_route == DictGet(rd, route_config.path)
             merged == MergeMethods(MethodsByName(existing_route.methods, <<>>),
                                    route_config.methods, route_config.path, <<>>)
         IN  [routes_dict |-> DictSet(rd, route_config.path,
                                      RouteConfig(route_config.path,
                                                  DictValues(merged.existing_methods))),
              warned |-> merged.warned]
    ELSE [routes_dict |-> DictSet(rd, route_config.path, route_config),
          warned |-> <<>>]

\* Config(routes=list(routes_dict.values()))
Config(rd) == [routes |-> DictValues(rd)]

\* mutant: an invalid route aborts the whole load
route_error_raises == "failed"

\* lines 124-128: a route that fails RouteConfig(**route) is logged and skipped
route_error_continue == "in_file"

\* lines 134-139: ValueError iff routes_dict is empty
load_result(rd) == IF rd = <<>> THEN "failed" ELSE "loaded"

(***************************************************************************)
(* get_route_config.                                                       *)
(***************************************************************************)
RECURSIVE FindMethod(_, _)
FindMethod(methods, method) ==
    IF methods = <<>> THEN None
    ELSE IF Head(methods).method = method
         THEN [t |-> "cfg", v |-> Head(methods)]
         ELSE FindMethod(Tail(methods), method)

ValueError(msg) == [t |-> "exc", exc |-> "ValueError", msg |-> msg]

RECURSIVE SearchRoutes(_, _, _)
SearchRoutes(routes, path, method) ==
    IF routes = <<>>
    THEN ValueError("route_not_found")
    ELSE IF _match_path_with_params(Head(routes).path, path)
         THEN LET found == FindMethod(Head(routes).methods, method)
              IN  IF found # None THEN found
                  ELSE ValueError("method_not_supported")
         ELSE SearchRoutes(Tail(routes), path, method)

\* mutant: a matching path without the method does not stop the search
RECURSIVE SearchRoutesFallThrough(_, _, _)
SearchRoutesFallThrough(routes, path, method) ==
    IF routes = <<>>
    THEN ValueError("route_not_found")
    ELSE IF _match_path_with_params(Head(routes).path, path)
            /\ FindMethod(Head(routes).methods, method) # None
         THEN FindMethod(Head(routes).methods, method)
         ELSE SearchRoutesFallThrough(Tail(routes), path, method)

get_route_config_any_route(path, method, config) ==
    SearchRoutesFallThrough(config.routes, path, method)

get_route_config(path, method, config) ==
    SearchRoutes(config.routes, path, method)

(***************************************************************************)
(* Python str primitives used by the template engine.                      *)
(***************************************************************************)
\* old in s
contains(s, old) ==
    \E i \in 1..(Len(s) - Len(old) + 1) : SubSeq(s, i, i + Len(old) - 1) = old

\* s.replace(old, new) for a non-empty old: leftmost, non-overlapping
RECURSIVE str_replace(_, _, _)
str_replace(s, old, new) ==
    IF Len(s) < Len(old) THEN s
    ELSE IF SubSeq(s, 1, Len(old)) = old
         THEN new \o str_replace(SubSeq(s, Len(old) + 1, Len(s)), old, new)
         ELSE <<Head(s)>> \o str_replace(Tail(s), old, new)

Digits == <<"0", "1", "2", "3", "4", "5", "6", "7", "8", "9">>
IsDigit(c) == c \in Range(Digits)
DigitValue(c) == (CHOOSE i \in 1..10 : Digits[i] = c) - 1

\* str(n) for an int n >= 0
RECURSIVE NatStr(_)
NatStr(n) == IF n < 10 THEN <<Digits[n + 1]>> ELSE NatStr(n \div 10) \o <<Digits[(n % 10) + 1]>>

RECURSIVE DigitsToNat(_, _)
DigitsToNat(s, acc) ==
    IF s = <<>> THEN acc ELSE DigitsToNat(Tail(s), 10 * acc + DigitValue(Head(s)))

UpperCase == <<"A", "B", "C", "D", "E", "F", "G", "H", "I", "J", "K", "L", "M",
               "N", "O", "P", "Q", "R", "S", "T", "U", "V", "W", "X", "Y", "Z">>
LowerCase == <<"a", "b", "c", "d", "e", "f", "g", "h", "i", "j", "k", "l", "m",
               "n", "o", "p", "q", "r", "s", "t", "u", "v", "w", "x", "y", "z">>
\* s.lower()
lower(s) ==
    [i \in 1..Len(s) |->
        IF s[i] \in Range(UpperCase)
        THEN LowerCase[CHOOSE k \in 1..26 : UpperCase[k] = s[i]]
        ELSE s[i]]

TypeError(msg)      == [t |-> "exc", exc |-> "TypeError", msg |-> msg]
AttributeError(msg) == [t |-> "exc", exc |-> "AttributeError", msg |-> msg]
IsExc(v) == v.t = "exc"

\* str(v) of a scalar: str, int, bool, None
py_str(v) ==
    CASE v.t = "str"  -> v.v
      [] v.t = "int"  -> IF v.v < 0 THEN <<"-">> \o NatStr(0 - v.v) ELSE NatStr(v.v)
      [] v.t = "bool" -> IF v.v THEN <<"T", "r", "u", "e">> ELSE <<"F", "a", "l", "s", "e">>
      [] v.t = "none" -> <<"N", "o", "n", "e">>

\* int(v): a str of optionally signed decimal digits (blanks around it allowed),
\* an int or a bool; ValueError / TypeError otherwise
py_int(v) ==
    CASE v.t = "int"  -> v
      [] v.t = "bool" -> IntV(IF v.v THEN 1 ELSE 0)
      [] v.t = "str"  ->
            LET body   == strip(v.v, " ")
                signed == body # <<>> /\ Head(body) \in {"+", "-"}
                digits == IF signed THEN Tail(body) ELSE body
            IN  IF digits # <<>> /\ \A i \in 1..Len(digits) : IsDigit(digits[i])
                THEN IntV(IF signed /\ Head(body) = "-"
                          THEN 0 - DigitsToNat(digits, 0)
                          ELSE DigitsToNat(digits, 0))
                ELSE ValueError("invalid literal for int()")
      [] OTHER -> TypeError("int() argument must be a string or a number")

(***************************************************************************)
(* Generator registry: redirect_handler.AVAILABLE_FUNCTIONS, in dict order. *)
(* accepts_kwargs: whether the function takes **kwargs                     *)
(* (utils/common_data.py) or no argument at all (utils/token_generator.py; *)
(* generate_random_code takes length only).                                *)
(***************************************************************************)
F_access_token      == <<"a", "c", "c", "e", "s", "s", "_", "t", "o", "k", "e", "n">>
F_refresh_token     == <<"r", "e", "f", "r", "e", "s", "h", "_", "t", "o", "k", "e", "n">>
F_token_pair        == <<"t", "o", "k", "e", "n", "_", "p", "a", "i", "r">>
F_verification_code == <<"v", "e", "r", "i", "f", "i", "c", "a", "t", "i", "o", "n", "_", "c", "o", "d", "e">>
F_session_id        == <<"s", "e", "s", "s", "i", "o", "n", "_", "i", "d">>
F_hash              == <<"h", "a", "s", "h">>
F_random_code       == <<"r", "a", "n", "d", "o", "m", "_", "c", "o", "d", "e">>
F_webhook_url       == <<"w", "e", "b", "h", "o", "o", "k", "_", "u", "r", "l">>
F_current_timestamp == <<"c", "u", "r", "r", "e", "n", "t", "_", "t", "i", "m", "e", "s", "t", "a", "m", "p">>

AVAILABLE_FUNCTIONS ==
    << [name |-> F_access_token,      accepts_kwargs |-> FALSE],
       [name |-> F_refresh_token,     accepts_kwargs |-> FALSE],
       [name |-> F_token_pair,        accepts_kwargs |-> FALSE],
       [name |-> F_verification_code, accepts_kwargs |-> FALSE],
       [name |-> F_session_id,        accepts_kwargs |-> FALSE],
       [name |-> F_hash,              accepts_kwargs |-> FALSE],
       [name |-> F_random_code,       accepts_kwargs |-> FALSE],
       [name |-> F_webhook_url,       accepts_kwargs |-> TRUE],
       [name |-> F_current_timestamp, accepts_kwargs |-> TRUE] >>

\* a value the named generator returns; the random ones are opaque tokens
Generated(name, webhook_url) ==
    CASE name = F_access_token      -> StrV(<<"a", "t", "-", "1">>)
      [] name = F_refresh_token     -> StrV(<<"r", "t">>)
      [] name = F_token_pair        -> ListV(<<StrV(<<"a", "t", "-", "1">>), StrV(<<"r", "t">>)>>)
      [] name = F_verification_code -> StrV(<<"1", "2", "3", "4", "5", "6">>)
      [] name = F_session_id        -> StrV(<<"s", "i", "d">>)
      [] name = F_hash              -> StrV(<<"0", "f">>)
      [] name = F_random_code       -> StrV(<<"6", "5", "4", "3", "2", "1">>)
      [] name = F_webhook_url       -> webhook_url
      [] name = F_current_timestamp -> StrV(<<"1", "7">>)

Marker(name) == <<"{", "$">> \o name \o <<"}">>

\* mutant: the placeholder of a key is the bare key
PlaceholderBare(key) == key

\* f"{{{key}}}"
Placeholder(key) == <<"{">> \o key \o <<"}">>

(***************************************************************************)
(* Template engine: template_processor.py.                                 *)
(***************************************************************************)
\* lines 75-76: for key, _value in params.items(): data.replace("{key}", str(_value))
RECURSIVE ReplaceParams(_, _)
ReplaceParams(s, items) ==
    IF items = <<>> THEN s
    ELSE ReplaceParams(str_replace(s, Placeholder(Head(items)[1]), py_str(Head(items)[2])),
                       Tail(items))

\* the AVAILABLE_FUNCTIONS loop. with_kwargs: the call is func(path=..., key=...)
\* (template_processor.py:78-86) rather than func() (redirect_handler.py:64-71)
RECURSIVE ReplaceFunctions(_, _, _)
ReplaceFunctions(s, funcs, with_kwargs) ==
    IF funcs = <<>> THEN StrV(s)
    ELSE LET func == Head(funcs)
         IN  IF ~contains(s, Marker(func.name))
             THEN ReplaceFunctions(s, Tail(funcs), with_kwargs)
             ELSE IF with_kwargs /\ ~func.accepts_kwargs
                  THEN TypeError("got an unexpected keyword argument 'path'")
                  ELSE LET r == Generated(func.name, settings.WEBHOOK_URL)
                       IN  IF func.name = F_token_pair
                           THEN ReplaceFunctions(
                                    str_replace(s, Marker(func.name),
                                                r.v[1].v \o <<",">> \o r.v[2].v),
                                    Tail(funcs), with_kwargs)
                           ELSE IF r.t # "str"
                                THEN TypeError("replace() argument 2 must be str")
                                ELSE ReplaceFunctions(
                                         str_replace(s, Marker(func.name), r.v),
                                         Tail(funcs), with_kwargs)

\* StringTemplateReplacer.replace(path, data, params, key=...)
replace(path, data, params, key) ==
    IF data.t # "str" THEN data
    ELSE ReplaceFunctions(ReplaceParams(data.v, params), AVAILABLE_FUNCTIONS, TRUE)

\* DataProcessor._replace_vars; an exception raised below is left in place and
\* raised by Raise
RECURSIVE _replace_vars(_, _, _, _)
_replace_vars(path, params, data, key) ==
    CASE data.t = "dict" ->
            DictV([i \in 1..Len(data.v) |->
                     <<data.v[i][1],
                       _replace_vars(path, params, data.v[i][2], data.v[i][1])>>])
      [] data.t = "list" ->
            ListV([i \in 1..Len(data.v) |-> _replace_vars(path, params, data.v[i], None)])
      [] data.t = "str" -> replace(path, data, params, key)
      [] OTHER -> data

K_value == <<"_", "v", "a", "l", "u", "e">>
K_type  == <<"_", "t", "y", "p", "e">>
T_int   == <<"i", "n", "t">>
T_bool  == <<"b", "o", "o", "l">>
T_str   == <<"s", "t", "r">>

\* TypedValueTransformer.can_transform
can_transform(data) ==
    data.t = "dict" /\ DictHas(data.v, K_value) /\ DictHas(data.v, K_type)

\* TypedValueTransformer.transform for _type int, bool, str and unknown names;
\* float and datetime leaves are not part of the templates of this model
transform(path, data, params) ==
    LET processed_value == replace(path, DictGet(data.v, K_value), params, None)
        type            == DictGet(data.v, K_type)
    IN  IF IsExc(processed_value) THEN processed_value
        ELSE IF type.t # "str" THEN AttributeError("object has no attribute 'lower'")
        ELSE LET target_type == lower(type.v)
             IN  CASE target_type = T_int ->
                        IF IsExc(py_int(processed_value))
                        THEN processed_value ELSE py_int(processed_value)
                   [] target_type = T_bool ->
                        IF processed_value.t = "str"
                        THEN BoolV(lower(processed_value.v)
                                     \in {<<"t", "r", "u", "e">>, <<"1">>, <<"y", "e", "s">>})
                        ELSE BoolV(CASE processed_value.t = "bool" -> processed_value.v
                                     [] processed_value.t = "int"  -> processed_value.v # 0
                                     [] processed_value.t \in {"dict", "list"}
                                                                   -> processed_value.v # <<>>
                                     [] processed_value.t = "none" -> FALSE)
                   [] target_type = T_str -> StrV(py_str(processed_value))
                   [] OTHER -> processed_value

\* DataProcessor._transform_data
RECURSIVE _transform_data(_, _, _)
_transform_data(path, params, data) ==
    CASE data.t = "dict" ->
            IF can_transform(data)
            THEN transform(path, data, params)
            ELSE DictV([i \in 1..Len(data.v) |->
                          <<data.v[i][1], _transform_data(path, params, data.v[i][2])>>])
      [] data.t = "list" ->
            ListV([i \in 1..Len(data.v) |-> _transform_data(path, params, data.v[i])])
      [] OTHER -> data

\* the exceptions left in a value, in evaluation order
RECURSIVE Excs(_)
RECURSIVE ExcsOfSeq(_)
Excs(data) ==
    CASE data.t = "exc"  -> <<data>>
      [] data.t = "dict" -> ExcsOfSeq(DictValues(data.v))
      [] data.t = "list" -> ExcsOfSeq(data.v)
      [] OTHER -> <<>>
ExcsOfSeq(items) ==
    IF items = <<>> THEN <<>> ELSE Excs(Head(items)) \o ExcsOfSeq(Tail(items))

\* the value, or the first exception raised while computing it
Raise(data) == IF Excs(data) # <<>> THEN Excs(data)[1] ELSE data

\* DataProcessor.process through the facade replace_template_vars(path, data, params)
replace_template_vars(path, data, params) ==
    LET replaced == Raise(_replace_vars(path, params, data, None))
    IN  IF IsExc(replaced) THEN replaced
        ELSE Raise(_transform_data(path, params, replaced))

\* mutant: the facade called with (data, params) binds them as if path were optional
call_replace_template_vars_lenient(args) ==
    IF Len(args) = 2
    THEN replace_template_vars(<<>>, args[1], args[2])
    ELSE replace_template_vars(args[1], args[2], args[3])

\* a Python call of replace_template_vars with positional arguments args: the
\* facade has three required parameters (template_processor.py:128-130)
call_replace_template_vars(args) ==
    IF Len(args) # 3
    THEN TypeError("replace_template_vars() missing 1 required positional argument: 'params'")
    ELSE replace_template_vars(args[1], args[2], args[3])

(***************************************************************************)
(* Exceptions as the orchestrator sees them.                               *)
(***************************************************************************)
\* fastapi.HTTPException(status_code=..., detail=...)
HTTPException(status_code, detail) ==
    [t |-> "exc", exc |-> "HTTPException", status_code |-> status_code, detail |-> detail]

JSONDecodeError == [t |-> "exc", exc |-> "JSONDecodeError", msg |-> "Expecting value"]

\* str(e): the message of a builtin exception; "{status_code}: {detail}" for an
\* HTTPException (starlette.exceptions.HTTPException.__str__)
exc_str(e) ==
    IF e.exc = "HTTPException"
    THEN [t |-> "text", exc |-> e.exc, status_code |-> e.status_code, detail |-> e.detail]
    ELSE [t |-> "text", exc |-> e.exc, msg |-> e.msg]

\* bool(v) of an Optional[dict]
Truthy(v) == v.t # "none" /\ v.v # <<>>

(***************************************************************************)
(* Request validation: request_handler.py:93-126, 332-357, 752-833.        *)
(***************************************************************************)
K_required == <<"r", "e", "q", "u", "i", "r", "e", "d">>

\* field.split(".", 1) of a field that holds "."
split_once(field) ==
    LET i == Min({k \in 1..Len(field) : field[k] = "."})
    IN  <<SubSeq(field, 1, i - 1), SubSeq(field, i + 1, Len(field))>>

\* mutant: every required name is looked up as a plain key of the payload
IsMissingPlainKey(data, field) == ~DictHas(data, field)

\* lines 110-120: whether field goes to missing_fields
IsMissing(data, field) ==
    IF contains(field, <<".">>)
    THEN LET parent_field == split_once(field)[1]
             child_field  == split_once(field)[2]
         IN  \/ ~DictHas(data, parent_field)
             \/ DictGet(data, parent_field).t # "dict"
             \/ ~DictHas(DictGet(data, parent_field).v, child_field)
    ELSE ~DictHas(data, field)

\* mutant: no required field is ever missed
validate_required_fields_none(data, schema) == None

\* lines 106-126. raise ValidationError(msg, []) does not construct a
\* pydantic_core ValidationError: the call itself raises TypeError
_validate_required_fields(data, schema) ==
    LET required_fields == IF DictHas(schema, K_required)
                           THEN DictGet(schema, K_required).v ELSE <<>>
        missing_fields  == SelectSeq(required_fields, LAMBDA field : IsMissing(data, field.v))
    IN  IF missing_fields # <<>> THEN TypeError("No constructor defined") ELSE None

\* a float, as a number of tenths
FloatV(tenths) == [t |-> "float", v |-> tenths]

\* the first exception of two statements run in order
OrElse(e, rest) == IF IsExc(e) THEN e ELSE rest

\* raise ValidationError(message, []): pydantic_core's ValidationError has no
\* constructor, the call raises TypeError and the message is lost
ValidationError(message, line_errors) == TypeError("No constructor defined")

\* d.get(key, {}) / d.get(key, []) of a schema
SchemaGet(d, key) == IF DictHas(d, key) THEN DictGet(d, key).v ELSE <<>>

\* the fields of a list that are no keys of data, in order
MissingFrom(fields, data) == SelectSeq(fields, LAMBDA field : ~DictHas(data, field.v))

\* a == b on scalars: bool counts as the int 0 or 1, int and float compare by value
IsNumber(v) == v.t \in {"int", "float", "bool"}
Tenths(v) ==
    CASE v.t = "int"   -> 10 * v.v
      [] v.t = "float" -> v.v
      [] v.t = "bool"  -> IF v.v THEN 10 ELSE 0
py_eq(a, b) ==
    IF IsNumber(a) /\ IsNumber(b) THEN Tenths(a) = Tenths(b)
    ELSE a.t = b.t /\ a = b

\* lines 151-160: the required names of a nested object that has "properties"
NestedRequired(field, value, field_schema) ==
    IF MissingFrom(SchemaGet(field_schema, <<"r", "e", "q", "u", "i", "r", "e", "d">>), value) # <<>>
    THEN ValidationError(
             [text  |-> "nested required",
              field |-> field \o <<".">>
                        \o MissingFrom(SchemaGet(field_schema, <<"r", "e", "q", "u", "i", "r", "e", "d">>), value)[1].v],
             <<>>)
    ELSE None

\* lines 128-160
RECURSIVE _validate_nested_fields(_, _)
RECURSIVE NestedFields(_, _, _)
NestedFields(data, properties, i) ==
    IF i > Len(data) THEN None
    ELSE LET field == data[i][1]
             value == data[i][2]
         IN  OrElse(IF /\ DictHas(properties, field)
                       /\ value.t = "dict"
                       /\ DictHas(DictGet(properties, field).v, <<"p", "r", "o", "p", "e", "r", "t", "i", "e", "s">>)
                    THEN OrElse(_validate_nested_fields(value.v, DictGet(properties, field).v),
                                NestedRequired(field, value.v, DictGet(properties, field).v))
                    ELSE None,
                    NestedFields(data, properties, i + 1))

_validate_nested_fields(data, schema) ==
    NestedFields(data, SchemaGet(schema, <<"p", "r", "o", "p", "e", "r", "t", "i", "e", "s">>), 1)

\* v.isdigit(): a str method
isdigit(value) ==
    IF value.t = "str"
    THEN BoolV(value.v # <<>> /\ \A i \in 1..Len(value.v) : IsDigit(value.v[i]))
    ELSE AttributeError("object has no attribute 'isdigit'")

\* lines 181-182: isinstance(v, int) or v.isdigit(); bool is a subclass of int
int_validator(value) ==
    IF value.t \in {"int", "bool"} THEN BoolV(TRUE) ELSE isdigit(value)

\* lines 178-185: type_validators[expected_type](value), True for a type the
\* table does not hold
type_validators(expected_type, value) ==
    CASE expected_type \in {<<"s", "t", "r">>, <<"s", "t", "r", "i", "n", "g">>}  -> BoolV(value.t = "str")
      [] expected_type \in {<<"i", "n", "t">>, <<"i", "n", "t", "e", "g", "e", "r">>} -> int_validator(value)
      [] expected_type = <<"n", "u", "m", "b", "e", "r">>  -> BoolV(value.t \in {"int", "float", "bool"})
      [] expected_type = <<"b", "o", "o", "l", "e", "a", "n">> -> BoolV(value.t = "bool")
      [] OTHER -> BoolV(TRUE)

\* whether the validator raised, or returned False and ValidationError is raised
TypeVerdict(field, expected_type, valid) ==
    IF IsExc(valid) THEN valid
    ELSE IF ~valid.v
    THEN ValidationError([text |-> "type", field |-> field, type |-> expected_type], <<>>)
    ELSE None

\* lines 160-193
_validate_field_type(field, value, field_schema) ==
    IF ~DictHas(field_schema, <<"t", "y", "p", "e">>) THEN None
    ELSE TypeVerdict(field, DictGet(field_schema, <<"t", "y", "p", "e">>).v,
                     type_validators(DictGet(field_schema, <<"t", "y", "p", "e">>).v, value))

\* lines 213-232: value not in field_schema["enum"]
_validate_enum(field, value, field_schema) ==
    IF /\ DictHas(field_schema, <<"e", "n", "u", "m">>)
       /\ \A i \in 1..Len(DictGet(field_schema, <<"e", "n", "u", "m">>).v) :
             ~py_eq(value, DictGet(field_schema, <<"e", "n", "u", "m">>).v[i])
    THEN ValidationError([text |-> "enum", field |-> field, value |-> value], <<>>)
    ELSE None

\* lines 347-351: the loop over data.items() of validate_data
RECURSIVE ValidateProperties(_, _, _)
ValidateProperties(data, properties, i) ==
    IF i > Len(data) THEN None
    ELSE OrElse(IF DictHas(properties, data[i][1])
                THEN OrElse(_validate_field_type(data[i][1], data[i][2],
                                                 DictGet(properties, data[i][1]).v),
                            _validate_enum(data[i][1], data[i][2],
                                           DictGet(properties, data[i][1]).v))
                ELSE None,
                ValidateProperties(data, properties, i + 1))

\* mutant: every if clause holds
check_condition_always(data, if_condition) == TRUE

\* lines 257-275
_check_condition(data, if_condition) ==
    LET if_properties == SchemaGet(if_condition, <<"p", "r", "o", "p", "e", "r", "t", "i", "e", "s">>)
    IN  \A i \in 1..Len(if_properties) :
            LET prop_name  == if_properties[i][1]
                prop_value == if_properties[i][2].v
            IN  /\ DictHas(data, prop_name)
                /\ DictHas(prop_value, <<"c", "o", "n", "s", "t">>)
                      => py_eq(DictGet(data, prop_name), DictGet(prop_value, <<"c", "o", "n", "s", "t">>))

\* lines 277-301
_validate_then_requirements(data, then_condition) ==
    IF MissingFrom(SchemaGet(then_condition, <<"r", "e", "q", "u", "i", "r", "e", "d">>), data) # <<>>
    THEN ValidationError(
             [text   |-> "then required",
              fields |-> MissingFrom(SchemaGet(then_condition, <<"r", "e", "q", "u", "i", "r", "e", "d">>), data)],
             <<>>)
    ELSE None

\* lines 250-255: the loop over schema["allOf"]
RECURSIVE ConditionalFrom(_, _, _)
ConditionalFrom(data, conditions, i) ==
    IF i > Len(conditions) THEN None
    ELSE OrElse(IF /\ DictHas(conditions[i].v, <<"i", "f">>)
                   /\ _check_condition(data, DictGet(conditions[i].v, <<"i", "f">>).v)
                THEN _validate_then_requirements(data, SchemaGet(conditions[i].v, <<"t", "h", "e", "n">>))
                ELSE None,
                ConditionalFrom(data, conditions, i + 1))

\* lines 234-255
_validate_conditional_requirements(data, schema) ==
    ConditionalFrom(data, SchemaGet(schema, <<"a", "l", "l", "O", "f">>), 1)

\* lines 355-357: a ValidationError becomes HTTPException 400, whatever else
\* was raised propagates
ValidationHandled(e) ==
    IF IsExc(e) /\ e.exc = "ValidationError"
    THEN HTTPException(400, [error |-> "validation", message |-> exc_str(e)])
    ELSE e

\* lines 332-357
validate_data(data, schema) ==
    ValidationHandled(
        OrElse(_validate_required_fields(data, schema),
        OrElse(_validate_nested_fields(data, schema),
        OrElse(ValidateProperties(data, SchemaGet(schema, <<"p", "r", "o", "p", "e", "r", "t", "i", "e", "s">>), 1),
               _validate_conditional_requirements(data, schema)))))

\* lines 766-833 for a request without a form content-type: the parsed json
\* body for POST/PUT/PATCH on a route with a schema, the query string otherwise
process_request_data(request, method, route_config) ==
    IF method \in {"POST", "PUT", "PATCH"} /\ Truthy(route_config.request_schema)
    THEN IF IsExc(request.json)
         THEN HTTPException(400, [error           |-> "request_data",
                                  message         |-> exc_str(request.json),
                                  received_data   |-> request.body_text,
                                  expected_format |-> route_config.request_schema])
         ELSE [t |-> "ok", params |-> request.json.v, body |-> request.json]
    ELSE [t |-> "ok", params |-> request.query_params, body |-> None]

(***************************************************************************)
(* Side-effect dispatcher: webhook_handler.py, redirect_handler.py,        *)
(* request_handler.py:835-876.                                             *)
(***************************************************************************)
K_webhook_type == <<"t", "y", "p", "e">>
K_data         == <<"d", "a", "t", "a">>
K_url          == <<"u", "r", "l">>
D_user_created == <<"u", "s", "e", "r", "_", "c", "r", "e", "a", "t", "e", "d">>

TransportOutcomes == {"json", "text", "client_error", "error"}
TransportFailures == {"client_error", "error"}

\* send_webhook(url, data) when the POST ends as transport says: the decoded
\* body, the {status, content_type, text} capture, or None for any failure
send_webhook(url, data, transport) ==
    CASE transport = "json" -> DictV(<< <<<<"o", "k">>, BoolV(TRUE)>> >>)
      [] transport = "text" -> DictV(<< <<<<"s", "t", "a", "t", "u", "s">>, IntV(200)>>,
                                        <<<<"c", "o", "n", "t", "e", "n", "t", "_", "t", "y", "p", "e">>, StrV(<<"t", "e", "x", "t", "/", "p", "l", "a", "i", "n">>)>>,
                                        <<<<"t", "e", "x", "t">>, StrV(<<"o", "k">>)>> >>)
      [] transport \in TransportFailures -> None

\* lines 866-876: what the try block raises for the outcome of the await of
\* line 864. The handler runs only when the await itself raised
webhook_raised(webhook_response, webhook_url, webhook_data) ==
    IF IsExc(webhook_response)
    THEN HTTPException(500, [error        |-> "webhook_send",
                             message      |-> exc_str(webhook_response),
                             webhook_url  |-> webhook_url,
                             webhook_data |-> webhook_data])
    ELSE None

\* lines 863-876
dispatch_webhook(webhook_url, webhook_data, transport) ==
    webhook_raised(send_webhook(webhook_url, webhook_data, transport),
                   webhook_url, webhook_data)

\* params.get("type", "user_created")
Discriminator(params) ==
    IF DictHas(params, K_webhook_type) THEN DictGet(params, K_webhook_type) ELSE StrV(D_user_created)

\* process_webhook(route_config, params): the exception it raises (None when it
\* returns) and the outbound calls it issued
process_webhook(route_config, params, transport) ==
    LET webhook_type == Discriminator(params)
        data_mapping == route_config.webhook.data_mapping
    IN  IF data_mapping.t = "none"
        THEN [raised |-> AttributeError("'NoneType' object has no attribute 'get'"),
              calls  |-> <<>>]
        ELSE
        LET webhook_data_mapping ==
                IF webhook_type.t = "str" /\ DictHas(data_mapping.v, webhook_type.v)
                THEN DictGet(data_mapping.v, webhook_type.v) ELSE None
        IN  IF ~Truthy(webhook_data_mapping)
            THEN [raised |-> HTTPException(400,
                                [error           |-> "unknown_webhook_type",
                                 webhook_type    |-> webhook_type,
                                 available_types |-> DictKeys(data_mapping.v)]),
                  calls  |-> <<>>]
            ELSE
            LET entry == webhook_data_mapping.v
                webhook_data == call_replace_template_vars(
                    <<IF DictHas(entry, K_data) THEN DictGet(entry, K_data) ELSE DictV(<<>>),
                      params>>)
                webhook_url  == call_replace_template_vars(
                    <<IF DictHas(entry, K_url) THEN DictGet(entry, K_url) ELSE StrV(<<>>),
                      params>>)
            IN  IF IsExc(webhook_data) THEN [raised |-> webhook_data, calls |-> <<>>]
                ELSE IF IsExc(webhook_url) THEN [raised |-> webhook_url, calls |-> <<>>]
                ELSE [raised |-> dispatch_webhook(webhook_url, webhook_data, transport),
                      calls  |-> <<[url |-> webhook_url, data |-> webhook_data,
                                    transport |-> transport]>>]

\* redirect_handler.py:59-61: only str, int, float and bool values are substituted
RECURSIVE ReplaceScalars(_, _)
ReplaceScalars(value, items) ==
    IF items = <<>> THEN value
    ELSE LET key == Head(items)[1]
             val == Head(items)[2]
         IN  ReplaceScalars(IF val.t \in {"str", "int", "bool"}
                            THEN str_replace(value, Placeholder(key), py_str(val))
                            ELSE value,
                            Tail(items))

\* urllib.parse.quote_plus of one character
Unreserved == Range(UpperCase) \cup Range(LowerCase) \cup Range(Digits) \cup {"_", ".", "-", "~"}
quote_char(c) ==
    CASE c \in Unreserved -> <<c>>
      [] c = " " -> <<"+">>
      [] c = "$" -> <<"%", "2", "4">>
      [] c = "&" -> <<"%", "2", "6">>
      [] c = "+" -> <<"%", "2", "B">>
      [] c = "," -> <<"%", "2", "C">>
      [] c = "/" -> <<"%", "2", "F">>
      [] c = ":" -> <<"%", "3", "A">>
      [] c = "=" -> <<"%", "3", "D">>
      [] c = "?" -> <<"%", "3", "F">>
      [] c = "{" -> <<"%", "7", "B">>
      [] c = "}" -> <<"%", "7", "D">>

RECURSIVE quote_plus(_)
quote_plus(s) == IF s = <<>> THEN <<>> ELSE quote_char(Head(s)) \o quote_plus(Tail(s))

\* urllib.parse.urlencode of a dict of str
RECURSIVE urlencode(_)
urlencode(query_params) ==
    IF query_params = <<>> THEN <<>>
    ELSE quote_plus(Head(query_params)[1]) \o <<"=">> \o quote_plus(Head(query_params)[2])
         \o (IF Tail(query_params) = <<>> THEN <<>> ELSE <<"&">> \o urlencode(Tail(query_params)))

\* the for loop of redirect_handler.py:53-73: query_params, or what it raised
RECURSIVE BuildQuery(_, _, _)
BuildQuery(parameters, params, query_params) ==
    IF parameters = <<>> THEN DictV(query_params)
    ELSE LET param == Head(parameters)
             value == ReplaceFunctions(ReplaceScalars(param.value, params),
                                       AVAILABLE_FUNCTIONS, FALSE)
         IN  IF IsExc(value) THEN value
             ELSE BuildQuery(Tail(parameters), params,
                             DictSet(query_params, param.name, value.v))

\* process_redirect(url, parameters, params): the redirect url, or what it raised
process_redirect(url, parameters, params) ==
    IF parameters.t = "none" THEN TypeError("'NoneType' object is not iterable")
    ELSE LET query_params == BuildQuery(parameters.v, params, <<>>)
         IN  IF IsExc(query_params) THEN query_params
             ELSE StrV(url \o <<"?">> \o urlencode(query_params.v))

(***************************************************************************)
(* Repeat hierarchy: request_handler.py:449-539.  A node is a dict         *)
(* {name, count, children}; the final child of a dotted name is created    *)
(* without the "children" key.                                             *)
(***************************************************************************)
KeyError(msg)   == [t |-> "exc", exc |-> "KeyError", msg |-> msg]
IndexError(msg) == [t |-> "exc", exc |-> "IndexError", msg |-> msg]

\* the "children" key is absent
Missing == [t |-> "missing"]

Node(name, count, children) == [name |-> name, count |-> count, children |-> children]

\* an entry of extra["repeat"]["items"]
Item(name, count) == [name |-> name, count |-> count]

\* the first node of the level with this name (0: none)
IndexOfName(level, name) ==
    IF \E i \in 1..Len(level) : level[i].name = name
    THEN Min({i \in 1..Len(level) : level[i].name = name})
    ELSE 0

\* lines 480-497
_add_or_update_root_item(hierarchy, name, count) ==
    LET i == IndexOfName(hierarchy, name)
    IN  IF i # 0
        THEN [hierarchy EXCEPT ![i].count = count]
        ELSE Append(hierarchy, Node(name, count, ListV(<<>>)))

\* lines 499-539: the level after the walk, or the KeyError of
\* parent_item["children"] on a node created as a final child
RECURSIVE _build_nested_hierarchy(_, _, _)
_build_nested_hierarchy(current_level, name_parts, count) ==
    IF Len(name_parts) = 1
    THEN ListV(Append(current_level, Node(name_parts[1], count, Missing)))
    ELSE LET parent_name == Head(name_parts)
             i           == IndexOfName(current_level, parent_name)
         IN  IF i = 0
             THEN ListV(Append(current_level,
                               Node(parent_name, StrV(<<"1">>),
                                    _build_nested_hierarchy(<<>>, Tail(name_parts), count))))
             ELSE IF current_level[i].children = Missing
             THEN KeyError("'children'")
             ELSE LET below == _build_nested_hierarchy(current_level[i].children.v,
                                                       Tail(name_parts), count)
                  IN  IF IsExc(below) THEN below
                      ELSE ListV([current_level EXCEPT ![i].children = below])

\* lines 462-476: the body of the for loop
add_repeat_item(hierarchy, item) ==
    LET name_parts == split(item.name, ".")
    IN  IF Len(name_parts) = 1
        THEN ListV(_add_or_update_root_item(hierarchy, item.name, item.count))
        ELSE _build_nested_hierarchy(hierarchy, name_parts, item.count)

RECURSIVE BuildFrom(_, _)
BuildFrom(hierarchy, items) ==
    IF items = <<>> THEN ListV(hierarchy)
    ELSE LET next == add_repeat_item(hierarchy, Head(items))
         IN  IF IsExc(next) THEN next ELSE BuildFrom(next.v, Tail(items))

\* lines 449-478: the hierarchy, or the exception raised
_build_repeat_hierarchy(items) == BuildFrom(<<>>, items)

(***************************************************************************)
(* Repeat execution: request_handler.py:541-746, on Python values.         *)
(***************************************************************************)
\* for item in x: the items of a list, the keys of a dict, the characters of a str
py_iter(x) ==
    CASE x.t = "list" -> x
      [] x.t = "dict" -> ListV([i \in 1..Len(x.v) |-> StrV(x.v[i][1])])
      [] x.t = "str"  -> ListV([i \in 1..Len(x.v) |-> StrV(<<x.v[i]>>)])
      [] OTHER -> TypeError("object is not iterable")

\* name in x, for a str name
py_in(name, x) ==
    CASE x.t = "dict" -> BoolV(DictHas(x.v, name))
      [] x.t = "list" -> BoolV(\E i \in 1..Len(x.v) : x.v[i].t = "str" /\ x.v[i].v = name)
      [] x.t = "str"  -> BoolV(contains(x.v, name))
      [] OTHER -> TypeError("argument is not iterable")

\* x[name], for a str name
py_getitem(x, name) ==
    CASE x.t = "dict" -> IF DictHas(x.v, name) THEN DictGet(x.v, name) ELSE KeyError(name)
      [] x.t \in {"list", "str"} -> TypeError("indices must be integers")
      [] OTHER -> TypeError("object is not subscriptable")

\* x[0]
py_first(x) ==
    CASE x.t = "list" -> IF x.v = <<>> THEN IndexError("list index out of range") ELSE x.v[1]
      [] x.t = "str"  -> IF x.v = <<>> THEN IndexError("string index out of range")
                         ELSE StrV(<<x.v[1]>>)
      [] x.t = "dict" -> KeyError(<<"0">>)
      [] OTHER -> TypeError("object is not subscriptable")

\* x[name] = value; value is evaluated first and what it raises propagates
py_setitem(x, name, value) ==
    IF IsExc(value) THEN value
    ELSE CASE x.t = "dict" -> DictV(DictSet(x.v, name, value))
           [] x.t = "list" -> TypeError("list indices must be integers")
           [] OTHER -> TypeError("object does not support item assignment")

\* d.update(other)
RECURSIVE dict_update(_, _)
dict_update(d, other) ==
    IF other = <<>> THEN d
    ELSE dict_update(DictSet(d, Head(other)[1], Head(other)[2]), Tail(other))

\* [item for sublist in results for item in sublist]
RECURSIVE Flatten(_, _)
Flatten(results, flat) ==
    IF results = <<>> THEN ListV(flat)
    ELSE LET sublist == py_iter(Head(results))
         IN  IF IsExc(sublist) THEN sublist ELSE Flatten(Tail(results), flat \o sublist.v)

\* mutant: the loop body runs once whatever the count
RepeatedOnce(count, unit) == IF IsExc(unit) THEN unit ELSE ListV(<<unit>>)

\* the results list of a "for _ in range(count)" loop whose body yields unit:
\* the body is not evaluated when count <= 0
Repeated(count, unit) ==
    IF count <= 0 THEN ListV(<<>>)
    ELSE IF IsExc(unit) THEN unit
    ELSE ListV([i \in 1..count |-> unit])

\* src.helpers.get_int(count): the integer the rendered count parses to, 0 when
\* it is not numeric
get_int(count) ==
    IF count.t \in {"int", "str"} /\ ~IsExc(py_int(count)) THEN py_int(count).v ELSE 0

\* lines 663-689: the loop of _extract_data_by_name
RECURSIVE ExtractFrom(_, _, _, _)
ExtractFrom(results, name, parent_name, extracted_data) ==
    IF results = <<>> THEN ListV(extracted_data)
    ELSE LET res     == Head(results)
             under   == IF parent_name.t = "str" /\ parent_name.v # <<>>
                        THEN (IF IsExc(py_getitem(res, parent_name.v))
                              THEN py_getitem(res, parent_name.v)
                              ELSE py_first(py_getitem(res, parent_name.v)))
                        ELSE res
             present == IF IsExc(under) THEN under ELSE py_in(name, under)
             found   == IF IsExc(present) THEN present
                        ELSE IF present.v THEN py_getitem(under, name) ELSE None
         IN  IF IsExc(found) THEN found
             ELSE IF ~present.v THEN ExtractFrom(Tail(results), name, parent_name, extracted_data)
             ELSE ExtractFrom(Tail(results), name, parent_name,
                              IF found.t = "list" THEN extracted_data \o found.v
                              ELSE Append(extracted_data, found))

\* _extract_data_by_name(results, name, parent_name=None); the loop that fills
\* results may have raised
_extract_data_by_name(results, name, parent_name) ==
    IF IsExc(results) THEN results ELSE ExtractFrom(results.v, name, parent_name, <<>>)

\* lines 691-718; rendering parent_result or processing the children may have
\* raised
_merge_nested_data(parent_result, parent_name, nested_data) ==
    LET present == py_in(parent_name, parent_result)
    IN  IF IsExc(parent_result) THEN parent_result
        ELSE IF IsExc(nested_data) THEN nested_data
        ELSE IF IsExc(present) THEN present
        ELSE IF ~present.v THEN py_setitem(parent_result, parent_name, nested_data)
        ELSE LET current == py_getitem(parent_result, parent_name)
             IN  IF IsExc(current) THEN current
                 ELSE IF current.t = "dict"
                 THEN py_setitem(parent_result, parent_name,
                                 DictV(dict_update(current.v, nested_data.v)))
                 ELSE LET first  == py_first(current)
                          key    == IF nested_data.v = <<>>
                                    THEN IndexError("list index out of range")
                                    ELSE StrV(nested_data.v[1][1])
                          target == IF IsExc(first) THEN first
                                    ELSE IF IsExc(key) THEN key
                                    ELSE py_getitem(first, key.v)
                      IN  IF IsExc(target) THEN target
                          ELSE IF target.t # "list"
                          THEN AttributeError("object has no attribute 'extend'")
                          ELSE LET extended == ListV(target.v \o py_iter(nested_data.v[1][2]).v)
                                   element  == py_setitem(first, key.v, extended)
                               IN  py_setitem(parent_result, parent_name,
                                              ListV([current.v EXCEPT ![1] = element]))

\* item.get("children")
HasChildren(item) == item.children # Missing /\ item.children.v # <<>>

\* lines 562-570, 617-631: the count is rendered and parsed, then the loop runs
RepeatLoop(rendered, unit) ==
    IF IsExc(rendered) THEN rendered ELSE Repeated(get_int(rendered), unit)

\* lines 607-661: nested_data, or the exception raised. unit is what every
\* replace_template_vars(path, response, params) of the loops evaluates to
RECURSIVE NestedChildren(_, _, _, _, _, _)
NestedChildren(path, unit, params, parent_name, children, nested_data) ==
    IF IsExc(nested_data) \/ children = <<>> THEN nested_data
    ELSE LET child_item    == Head(children)
             child_name    == child_item.name
             child_result  == _merge_nested_data(
                                  unit, child_name,
                                  NestedChildren(path, unit, params, child_name,
                                                 child_item.children.v, DictV(<<>>)))
             child_results == RepeatLoop(replace(path, child_item.count, params, None),
                                         IF HasChildren(child_item) THEN child_result
                                         ELSE unit)
             extracted     == _extract_data_by_name(child_results, child_name,
                                                    StrV(parent_name))
         IN  NestedChildren(path, unit, params, parent_name, Tail(children),
                            py_setitem(nested_data, child_name, extracted))

_process_nested_children(path, unit, params, parent_name, children) ==
    NestedChildren(path, unit, params, parent_name, children, DictV(<<>>))

N_root == <<"r", "o", "o", "t">>

\* lines 572-577, 596-603: what result is once the loop of the item is over
Stored(result, item_name, results) ==
    IF IsExc(results) THEN results
    ELSE IF item_name = N_root THEN Flatten(results.v, <<>>)
    ELSE py_setitem(result, item_name, _extract_data_by_name(results, item_name, None))

\* lines 560-603: the for loop of _execute_hierarchical_repeat
RECURSIVE ExecuteFrom(_, _, _, _, _)
ExecuteFrom(path, unit, params, hierarchy, result) ==
    IF IsExc(result) \/ hierarchy = <<>> THEN result
    ELSE LET item      == Head(hierarchy)
             item_name == item.name
             parent    == _merge_nested_data(
                              unit, item_name,
                              _process_nested_children(path, unit, params, item_name,
                                                       item.children.v))
             results   == RepeatLoop(replace(path, item.count, params, None),
                                     IF HasChildren(item) THEN parent ELSE unit)
         IN  ExecuteFrom(path, unit, params, Tail(hierarchy),
                         Stored(result, item_name, results))

\* lines 541-605; hierarchy is what _build_repeat_hierarchy returned or raised
_execute_hierarchical_repeat(path, response, params, hierarchy) ==
    IF IsExc(hierarchy) THEN hierarchy
    ELSE ExecuteFrom(path, call_replace_template_vars(<<path, response, params>>), params,
                     hierarchy.v, DictV(<<>>))

K_repeat == <<"r", "e", "p", "e", "a", "t">>
K_items  == <<"i", "t", "e", "m", "s">>

\* model_extra of a route-method that declares repeat items
RepeatExtra(items) == << <<K_repeat, DictV(<< <<K_items, ListV(items)>> >>)>> >>

\* extra["repeat"]["items"], <<>> when line 431 finds none
RepeatItems(extra) ==
    IF DictHas(extra, K_repeat) /\ Truthy(DictGet(extra, K_repeat))
       /\ DictHas(DictGet(extra, K_repeat).v, K_items)
    THEN DictGet(DictGet(extra, K_repeat).v, K_items).v
    ELSE <<>>

(***************************************************************************)
(* Orchestrator pieces: request_handler.py:80-91, 359-432.                 *)
(***************************************************************************)
browser_paths == {<<"/", "f", "a", "v", "i", "c", "o", "n", ".", "i", "c", "o">>, <<"/", "r", "o", "b", "o", "t", "s", ".", "t", "x", "t">>, <<"/", "s", "i", "t", "e", "m", "a", "p", ".", "x", "m", "l">>, <<"/", "h", "u", "m", "a", "n", "s", ".", "t", "x", "t">>}
is_browser_request(path) == path \in browser_paths

\* lines 440-447: every exception of the repeat branch is raised as
\* HTTPException 500
RepeatResult(result) ==
    IF IsExc(result) THEN HTTPException(500, exc_str(result)) ELSE result

\* lines 420-447: the plain render when no repeat items are declared; otherwise
\* the hierarchical repeat
processing_result(path, response, extra, params) ==
    IF RepeatItems(extra) = <<>>
    THEN call_replace_template_vars(<<path, response, params>>)
    ELSE RepeatResult(_execute_hierarchical_repeat(
                          path, response, params,
                          _build_repeat_hierarchy(RepeatItems(extra))))

\* what process_request returns
Return(value) == [t |-> "return", v |-> value]

\* mutant: the orchestrator boundary answers 500
reject_as_server_error(e) == HTTPException(500, exc_str(e))

\* lines 413-418: both handlers answer 403 with str(e)
reject(e) == HTTPException(403, exc_str(e))

\* the wrapper of lines 44-60 for one key: rate_limit(limit=5, period_sec=3600)
RateLimit == 5

(***************************************************************************)
(* Inputs of the registry and matcher specifications.                      *)
(***************************************************************************)
MaxInputs == 3          \* sources and route entries read by one load_configs

P_a      == <<"/", "a">>
P_b      == <<"/", "b">>
P_x      == <<"/", "{", "x", "}">>
P_a_b    == <<"/", "a", "/", "b">>
DeclPaths    == {P_a, P_x}
LookupPaths  == {P_a, P_b, P_a_b}
Methods      == {"GET", "POST"}
MethodLists  == {<<>>, <<"GET">>, <<"POST">>, <<"GET", "POST">>, <<"GET", "GET">>}


\* the n-th valid declaration read: its k-th method answers {"id": 10*n + k}
Declaration(n, path, names) ==
    RouteConfig(path,
        [k \in 1..Len(names) |->
            MethodConfig(names[k], None,
                         DictV(<< <<<<"i", "d">>, IntV(10 * n + k)>> >>),
                         None, None)])

Declared == SelectSeq(consumed, LAMBDA e : e.kind = "route")
NDeclared == Len(Declared)

LoadIdle ==
    /\ ld_pc = "idle" /\ routes_dict = <<>> /\ warnings = <<>>
    /\ skipped = 0 /\ consumed = <<>> /\ lookup = None

MatchIdle == m_route = <<>> /\ m_request = <<>> /\ m_result = None

ValidIdle ==
    vd_pc = "idle" /\ vd_data = <<>> /\ vd_schema = <<>> /\ vd_result = [t |-> "unset"]

NoSettings == settings = [WEBHOOK_URL |-> None]

\* the components declared after the webhook transport, all idle
RenderIdle ==
    /\ tp_pc = "idle" /\ tp_path = <<>> /\ tp_data = [t |-> "none"]
    /\ tp_params = <<>> /\ tp_result = [t |-> "unset"]

HierIdle ==
    hy_pc = "idle" /\ hy_items = <<>> /\ hy_done = 0 /\ hy_hierarchy = <<>>

RepeatIdle ==
    /\ rp_pc = "idle" /\ rp_path = <<>> /\ rp_response = [t |-> "none"] /\ rp_extra = <<>>
    /\ rp_params = <<>> /\ rp_hierarchy = [t |-> "unset"] /\ rp_result = [t |-> "unset"]

LimitIdle ==
    /\ rl_clock = 0 /\ rl_cache = <<>> /\ rl_lock = 0 /\ rl_pc = <<>> /\ rl_key = <<>>
    /\ rl_now = <<>> /\ rl_timestamps = <<>> /\ rl_admitted = <<>>

IdsIdle ==
    gi_instances = <<>> /\ gi_objs = <<>> /\ gi_thread = <<>> /\ gi_returns = <<>>

AliasIdle ==
    al_pc = "idle" /\ al_heap = <<>> /\ al_response = <<>> /\ al_stored = <<>> /\ al_req = <<>> /\ al_frame = <<>>

LastIdle == IdsIdle /\ AliasIdle

\* the components declared after the request validation, all idle
LaterIdle == HierIdle /\ RepeatIdle /\ LimitIdle /\ LastIdle

RestIdle == ValidIdle /\ RenderIdle /\ LaterIdle

Unset == [t |-> "unset"]

ServeIdle ==
    /\ rq_config = [routes |-> <<>>] /\ rq_request = None /\ rq_cache = 0
    /\ rq_state = "Idle" /\ rq_trace = <<>> /\ rq_route_config = None
    /\ rq_params = <<>> /\ rq_outcalls = <<>> /\ rq_redirect_url = Unset
    /\ rq_rendered = Unset /\ rq_result = Unset

HookIdle ==
    /\ wh_pc = "idle" /\ wh_url = None /\ wh_data = None /\ wh_transport = "json"
    /\ wh_response = Unset /\ wh_raised = Unset

(***************************************************************************)
(* load_configs, one step per yaml file event and per route entry.         *)
(***************************************************************************)
InitLoad ==
    /\ ld_pc = "scan" /\ routes_dict = <<>> /\ warnings = <<>>
    /\ skipped = 0 /\ consumed = <<>> /\ lookup = None
    /\ MatchIdle /\ ServeIdle /\ HookIdle /\ RestIdle /\ NoSettings

\* lines 94-97, 130-132: open() or yaml.safe_load raises, or "routes" is not
\* iterable: logger.error, next file
FileUnreadable ==
    /\ ld_pc = "scan" /\ Len(consumed) < MaxInputs
    /\ consumed' = Append(consumed, [kind |-> "bad_file"])
    /\ skipped' = skipped + 1
    /\ UNCHANGED <<ld_pc, routes_dict, warnings, lookup, notLoad>>

\* lines 99-101: empty document or no "routes" key: logger.warning, next file
FileWithoutRoutes ==
    /\ ld_pc = "scan" /\ Len(consumed) < MaxInputs
    /\ consumed' = Append(consumed, [kind |-> "no_routes"])
    /\ skipped' = skipped + 1
    /\ UNCHANGED <<ld_pc, routes_dict, warnings, lookup, notLoad>>

\* line 103: a file with a "routes" list starts its loop
FileOpen ==
    /\ ld_pc = "scan"
    /\ ld_pc' = "in_file"
    /\ UNCHANGED <<routes_dict, warnings, skipped, consumed, lookup, notLoad>>

\* lines 104-123: a route that validates as RouteConfig is merged
RouteValid ==
    /\ ld_pc = "in_file" /\ Len(consumed) < MaxInputs
    /\ \E path \in DeclPaths, names \in MethodLists :
          LET route_config == Declaration(NDeclared + 1, path, names)
              merged == merge_route(routes_dict, route_config)
          IN  /\ routes_dict' = merged.routes_dict
              /\ warnings' = warnings \o merged.warned
              /\ consumed' = Append(consumed, [kind |-> "route", decl |-> route_config])
    /\ UNCHANGED <<ld_pc, skipped, lookup, notLoad>>

\* lines 106, 124-128: RouteConfig(**route) raises: logger.error, next route
RouteInvalid ==
    /\ ld_pc = "in_file" /\ Len(consumed) < MaxInputs
    /\ consumed' = Append(consumed, [kind |-> "bad_route"])
    /\ skipped' = skipped + 1
    /\ ld_pc' = route_error_continue
    /\ UNCHANGED <<routes_dict, warnings, lookup, notLoad>>

\* lines 105, 124-127, 130-132: the entry is no mapping, route.get raises in
\* the try and again in its handler: the file-level handler logs and the rest
\* of the file is not read
RouteNotMapping ==
    /\ ld_pc = "in_file" /\ Len(consumed) < MaxInputs
    /\ consumed' = Append(consumed, [kind |-> "not_mapping"])
    /\ skipped' = skipped + 1
    /\ ld_pc' = "scan"
    /\ UNCHANGED <<routes_dict, warnings, lookup, notLoad>>

\* line 103: the file's routes are exhausted
FileEnd ==
    /\ ld_pc = "in_file"
    /\ ld_pc' = "scan"
    /\ UNCHANGED <<routes_dict, warnings, skipped, consumed, lookup, notLoad>>

\* lines 134-139: no file is left
LoadFinish ==
    /\ ld_pc = "scan"
    /\ ld_pc' = load_result(routes_dict)
    /\ UNCHANGED <<routes_dict, warnings, skipped, consumed, lookup, notLoad>>

\* get_route_config(path, method, config) on the returned Config
Lookup ==
    /\ ld_pc = "loaded"
    /\ \E path \in LookupPaths, method \in Methods :
          lookup' = [path |-> path, method |-> method,
                     res |-> get_route_config(path, method, Config(routes_dict))]
    /\ UNCHANGED <<ld_pc, routes_dict, warnings, skipped, consumed, notLoad>>

NextLoad ==
    \/ FileUnreadable \/ FileWithoutRoutes \/ FileOpen
    \/ RouteValid \/ RouteInvalid \/ RouteNotMapping \/ FileEnd
    \/ LoadFinish \/ Lookup

SpecLoad == InitLoad /\ [][NextLoad]_vars

(***************************************************************************)
(* _match_path_with_params applied to arbitrary pairs of paths.            *)
(***************************************************************************)
MaxRoutePathLen   == 3
MaxRequestPathLen == 3
Alphabet == {"/", "{", "}", "a"}

StringsUpTo(n) == UNION {[1..k -> Alphabet] : k \in 0..n}

P_items_id       == <<"/", "i", "t", "e", "m", "s", "/", "{", "i", "d", "}">>
P_items          == <<"/", "i", "t", "e", "m", "s">>
P_items_42       == <<"/", "i", "t", "e", "m", "s", "/", "4", "2">>
P_items_42_slash == <<"/", "i", "t", "e", "m", "s", "/", "4", "2", "/">>
P_items_abc      == <<"/", "i", "t", "e", "m", "s", "/", "a", "b", "c">>
P_items_42_extra ==
    <<"/", "i", "t", "e", "m", "s", "/", "4", "2", "/", "e", "x", "t", "r", "a">>

MatchRoutePaths   == StringsUpTo(MaxRoutePathLen) \cup {P_items_id}
MatchRequestPaths ==
    StringsUpTo(MaxRequestPathLen)
        \cup {P_items, P_items_42, P_items_42_slash, P_items_abc, P_items_42_extra}

InitMatch ==
    /\ m_route \in MatchRoutePaths
    /\ m_request \in MatchRequestPaths
    /\ m_result = None
    /\ LoadIdle /\ ServeIdle /\ HookIdle /\ RestIdle /\ NoSettings

MatchCall ==
    /\ m_result = None
    /\ m_result' = BoolV(_match_path_with_params(m_route, m_request))
    /\ UNCHANGED <<m_route, m_request, notMatch>>

NextMatch == MatchCall

SpecMatch == InitMatch /\ [][NextMatch]_vars

(***************************************************************************)
(* Inputs of the orchestrator specification: one route /a with one         *)
(* route-method, and one request.                                          *)
(***************************************************************************)
K_a     == <<"a">>
D_paid  == <<"p", "a", "i", "d">>
D_zzz   == <<"z", "z", "z">>

RequestSchemas == {None, DictV(<< <<K_required, ListV(<<StrV(K_a)>>)>> >>)}

\* webhook.data_mapping: {"user_created": {url: "h/{a}", data: {"k": "{a}"}},
\*                        "paid": {url: "h", data: {}}}
DataMapping ==
    DictV(<< <<D_user_created,
               DictV(<< <<K_url, StrV(<<"h", "/", "{", "a", "}">>)>>,
                        <<K_data, DictV(<< <<<<"k">>, StrV(<<"{", "a", "}">>)>> >>)>> >>)>>,
             <<D_paid,
               DictV(<< <<K_url, StrV(<<"h">>)>>, <<K_data, DictV(<<>>)>> >>)>> >>)

WebhookConfig(enabled, data_mapping) ==
    [t |-> "cfg", enabled |-> enabled, data_mapping |-> data_mapping]
WebhookConfigs ==
    {None, WebhookConfig(FALSE, DataMapping), WebhookConfig(TRUE, DataMapping),
     WebhookConfig(TRUE, None)}

RedirectParameter(name, value) == [name |-> name, value |-> value]
RedirectConfig(enabled, url, parameters) ==
    [t |-> "cfg", enabled |-> enabled, url |-> url, parameters |-> parameters]
RedirectParameters == ListV(<<RedirectParameter(<<"u">>, <<"{", "a", "}", "{", "$", "w", "e", "b", "h", "o", "o", "k", "_", "u", "r", "l", "}">>)>>)
RedirectConfigs ==
    {None, RedirectConfig(FALSE, <<"r">>, RedirectParameters),
     RedirectConfig(TRUE, <<"r">>, RedirectParameters),
     RedirectConfig(TRUE, <<"r">>, None)}

ResponseTemplate == DictV(<< <<<<"r">>, StrV(<<"{", "a", "}">>)>> >>)

MethodConfigs ==
    {MethodConfig(method, request_schema, ResponseTemplate, webhook, redirect) :
        method \in Methods, request_schema \in RequestSchemas,
        webhook \in WebhookConfigs, redirect \in RedirectConfigs}

\* the Config load_configs builds from one file that declares /a once
ServeConfigs == {[routes |-> <<RouteConfig(P_a, <<method_config>>)>>] :
                    method_config \in MethodConfigs}

\* the fields a request carries: "type" absent or one of two values, "a" absent
\* or present; query strings hold str values, a json body holds 1 as a number
Payload(type, a) ==
    (IF type = None THEN <<>> ELSE << <<K_webhook_type, type>> >>)
    \o (IF a = None THEN <<>> ELSE << <<K_a, a>> >>)
QueryPayloads == {Payload(type, a) : type \in {None, StrV(D_user_created), StrV(D_zzz)},
                                     a \in {None, StrV(<<"1">>)}}
JsonPayloads  == {Payload(type, a) : type \in {None, StrV(D_user_created), StrV(D_zzz)},
                                     a \in {None, IntV(1)}}

\* path is the {path:path} parameter of app.handle_request, without the leading "/"
Request(path, method, query_params, json, body_text) ==
    [path |-> path, method |-> method, query_params |-> query_params,
     json |-> json, body_text |-> body_text]
RequestPaths == {<<"a">>, <<"b">>, <<"f", "a", "v", "i", "c", "o", "n", ".", "i", "c", "o">>}
Requests ==
    {Request(path, method, query_params, JSONDecodeError, <<>>) :
        path \in RequestPaths, method \in Methods, query_params \in QueryPayloads}
    \cup
    {Request(path, method, <<>>, DictV(body), <<"{", ".", ".", "}">>) :
        path \in RequestPaths, method \in Methods, body \in JsonPayloads}

WebhookUrls == {None, StrV(<<"h", ":", "/">>)}

full_path(path) == <<"/">> \o path

WebhookOn(method_config)  == method_config.webhook.t # "none" /\ method_config.webhook.enabled
RedirectOn(method_config) == method_config.redirect.t # "none" /\ method_config.redirect.enabled

(***************************************************************************)
(* RequestHandler.process_request, one step per stage of                   *)
(* request_handler.py:359-418.                                             *)
(***************************************************************************)
Init ==
    /\ rq_config \in ServeConfigs
    /\ rq_request \in Requests
    /\ rq_cache \in {0, RateLimit - 1, RateLimit}
    /\ settings \in {[WEBHOOK_URL |-> u] : u \in WebhookUrls}
    /\ rq_state = "Idle" /\ rq_trace = <<>> /\ rq_route_config = None
    /\ rq_params = <<>> /\ rq_outcalls = <<>> /\ rq_redirect_url = Unset
    /\ rq_rendered = Unset /\ rq_result = Unset
    /\ LoadIdle /\ MatchIdle /\ HookIdle /\ RestIdle

\* the request enters a state
Enter(states) ==
    /\ rq_state' = states[Len(states)]
    /\ rq_trace' = rq_trace \o states

\* lines 413-418: an exception raised inside the try block
Rejected(e) ==
    /\ Enter(<<"Rejected">>)
    /\ rq_result' = reject(e)

\* lines 44-60: the rate_limit wrapper admits the request or raises 429
Receive ==
    /\ rq_state = "Idle"
    /\ IF rq_cache >= RateLimit
       THEN /\ Enter(<<"Received", "Rejected">>)
            /\ rq_result' = HTTPException(429, [error |-> "rate_limit"])
            /\ UNCHANGED rq_cache
       ELSE /\ Enter(<<"Received">>)
            /\ rq_cache' = rq_cache + 1
            /\ UNCHANGED rq_result
    /\ UNCHANGED <<rq_config, rq_request, rq_route_config, rq_params, rq_outcalls,
                   rq_redirect_url, rq_rendered, notServe>>

\* lines 372-381: browser paths are answered 204, the others are routed
Match ==
    /\ rq_state = "Received"
    /\ LET found == get_route_config(full_path(rq_request.path), rq_request.method, rq_config)
       IN  IF is_browser_request(full_path(rq_request.path))
           THEN /\ Enter(<<"Responded">>)
                /\ rq_result' = Return([status_code |-> 204])
                /\ UNCHANGED rq_route_config
           ELSE IF IsExc(found)
           THEN /\ Rejected(found)
                /\ UNCHANGED rq_route_config
           ELSE /\ Enter(<<"Matched">>)
                /\ rq_route_config' = found.v
                /\ UNCHANGED rq_result
    /\ UNCHANGED <<rq_config, rq_request, rq_cache, rq_params, rq_outcalls,
                   rq_redirect_url, rq_rendered, notServe>>

\* lines 383-392: process_request_data, then validate_data when a schema is declared
Validate ==
    /\ rq_state = "Matched"
    /\ LET data == process_request_data(rq_request, rq_request.method, rq_route_config)
           e    == IF IsExc(data) THEN data
                   ELSE IF Truthy(rq_route_config.request_schema)
                        THEN validate_data(data.params, rq_route_config.request_schema.v)
                        ELSE None
       IN  IF IsExc(e)
           THEN /\ Rejected(e)
                /\ UNCHANGED rq_params
           ELSE /\ Enter(<<"Validated">>)
                /\ rq_params' = data.params
                /\ UNCHANGED rq_result
    /\ UNCHANGED <<rq_config, rq_request, rq_cache, rq_route_config, rq_outcalls,
                   rq_redirect_url, rq_rendered, notServe>>

\* lines 394-395: process_webhook, against a peer that answers as transport says
ProcessWebhook ==
    /\ rq_state = "Validated"
    /\ WebhookOn(rq_route_config)
    /\ \E transport \in TransportOutcomes :
          LET done == process_webhook(rq_route_config, rq_params, transport)
          IN  /\ rq_outcalls' = rq_outcalls \o done.calls
              /\ IF IsExc(done.raised)
                 THEN Rejected(done.raised)
                 ELSE Enter(<<"SideEffected">>) /\ UNCHANGED rq_result
    /\ UNCHANGED <<rq_config, rq_request, rq_cache, rq_route_config, rq_params,
                   rq_redirect_url, rq_rendered, notServe>>

\* the webhook stage is over: it ran, or the route-method has no enabled webhook
AfterWebhook ==
    \/ rq_state = "SideEffected"
    \/ rq_state = "Validated" /\ ~WebhookOn(rq_route_config)

\* lines 397-401: process_redirect answers the request with 302
ProcessRedirect ==
    /\ AfterWebhook
    /\ RedirectOn(rq_route_config)
    /\ LET url == process_redirect(rq_route_config.redirect.url,
                                   rq_route_config.redirect.parameters, rq_params)
       IN  IF IsExc(url)
           THEN /\ Rejected(url)
                /\ UNCHANGED rq_redirect_url
           ELSE /\ Enter(IF rq_state = "SideEffected" THEN <<"Responded">>
                         ELSE <<"SideEffected", "Responded">>)
                /\ rq_redirect_url' = url
                /\ rq_result' = Return([status_code |-> 302, headers |-> [Location |-> url]])
    /\ UNCHANGED <<rq_config, rq_request, rq_cache, rq_route_config, rq_params,
                   rq_outcalls, rq_rendered, notServe>>

\* lines 403-408: processing_result renders the declared response
Render ==
    /\ AfterWebhook
    /\ ~RedirectOn(rq_route_config)
    /\ LET value == processing_result(rq_request.path, rq_route_config.response,
                                      <<>>, rq_params)
       IN  IF IsExc(value)
           THEN /\ Rejected(value)
                /\ UNCHANGED rq_rendered
           ELSE /\ Enter(<<"Rendered">>)
                /\ rq_rendered' = value
                /\ UNCHANGED rq_result
    /\ UNCHANGED <<rq_config, rq_request, rq_cache, rq_route_config, rq_params,
                   rq_outcalls, rq_redirect_url, notServe>>

\* line 411: return result
Respond ==
    /\ rq_state = "Rendered"
    /\ Enter(<<"Responded">>)
    /\ rq_result' = Return(rq_rendered)
    /\ UNCHANGED <<rq_config, rq_request, rq_cache, rq_route_config, rq_params,
                   rq_outcalls, rq_redirect_url, rq_rendered, notServe>>

Next ==
    \/ Receive
    \/ Match
    \/ Validate
    \/ ProcessWebhook
    \/ ProcessRedirect
    \/ Render
    \/ Respond

Spec == Init /\ [][Next]_vars

(***************************************************************************)
(* send_webhook and the try block of process_webhook on their own.         *)
(***************************************************************************)
HookUrls  == {StrV(<<"h">>), StrV(<<"h", "/", "1">>), StrV(<<>>)}
HookDatas == {DictV(<<>>), DictV(<< <<<<"k">>, StrV(<<"1">>)>> >>),
              DictV(<< <<<<"k">>, IntV(1)>> >>), DictV(<< <<<<"k">>, None>> >>)}

InitHook ==
    /\ wh_pc = "call"
    /\ wh_url \in HookUrls
    /\ wh_data \in HookDatas
    /\ wh_transport \in TransportOutcomes
    /\ wh_response = Unset /\ wh_raised = Unset
    /\ LoadIdle /\ MatchIdle /\ ServeIdle /\ RestIdle /\ NoSettings

\* webhook_handler.py:24-47: the POST ends as wh_transport says
SendWebhook ==
    /\ wh_pc = "call"
    /\ wh_response' = send_webhook(wh_url, wh_data, wh_transport)
    /\ wh_pc' = "sent"
    /\ UNCHANGED <<wh_url, wh_data, wh_transport, wh_raised, notHook>>

\* request_handler.py:863-876: what process_webhook raises after the call
AfterSend ==
    /\ wh_pc = "sent"
    /\ wh_raised' = webhook_raised(wh_response, wh_url, wh_data)
    /\ wh_pc' = "done"
    /\ UNCHANGED <<wh_url, wh_data, wh_transport, wh_response, notHook>>

NextHook ==
    \/ SendWebhook
    \/ AfterSend

SpecHook == InitHook /\ [][NextHook]_vars

(***************************************************************************)
(* RequestHandler._validate_required_fields on its own.                    *)
(***************************************************************************)
K_b   == <<"b">>
K_c   == <<"c">>
K_b_c == <<"b", ".", "c">>

\* payloads over the keys a, b and the literal key "b.c"; b absent, a number,
\* an empty object, an object holding c, an object holding another key
RequiredPayloads ==
    {(IF a THEN << <<K_a, IntV(1)>> >> ELSE <<>>)
       \o (IF b = None THEN <<>> ELSE << <<K_b, b>> >>)
       \o (IF literal THEN << <<K_b_c, IntV(3)>> >> ELSE <<>>) :
        a \in BOOLEAN, literal \in BOOLEAN,
        b \in {None, IntV(1), DictV(<<>>), DictV(<< <<K_c, IntV(2)>> >>),
               DictV(<< <<K_a, IntV(2)>> >>)}}

RequiredLists ==
    {<<>>, <<StrV(K_a)>>, <<StrV(K_b)>>, <<StrV(K_b_c)>>,
     <<StrV(K_a), StrV(K_b_c)>>, <<StrV(K_b_c), StrV(K_a)>>, <<StrV(K_b), StrV(K_b_c)>>}

\* schemas with and without a "required" list
RequiredSchemas ==
    {<<>>} \cup {<< <<K_required, ListV(required)>> >> : required \in RequiredLists}

InitValid ==
    /\ vd_pc = "call"
    /\ vd_data \in RequiredPayloads
    /\ vd_schema \in RequiredSchemas
    /\ vd_result = [t |-> "unset"]
    /\ LoadIdle /\ MatchIdle /\ ServeIdle /\ HookIdle /\ RenderIdle /\ LaterIdle /\ NoSettings

\* request_handler.py:106-126: returns None or raises
ValidateRequired ==
    /\ vd_pc = "call"
    /\ vd_result' = _validate_required_fields(vd_data, vd_schema)
    /\ vd_pc' = "done"
    /\ UNCHANGED <<vd_data, vd_schema, notValid>>

NextValid == ValidateRequired

SpecValid == InitValid /\ [][NextValid]_vars

(***************************************************************************)
(* RequestHandler.validate_data on its own, over schemas that declare      *)
(* required, properties (type, enum, a nested object) and allOf.           *)
(***************************************************************************)
Absent == [t |-> "absent"]

\* the dict of the entries whose value is not Absent
Entries(pairs) == SelectSeq(pairs, LAMBDA pair : pair[2] # Absent)
Opt(S) == {Absent} \cup S

\* payloads over the keys a, o, k and b
SchemaValues ==
    {StrV(<<"1", "2">>), StrV(<<"x">>), IntV(1), FloatV(15), BoolV(TRUE), None,
     ListV(<<>>), DictV(<<>>)}
SchemaPayloads ==
    {Entries(<< <<<<"a">>, a>>, <<<<"o">>, o>>, <<<<"k">>, k>>, <<<<"b">>, b>> >>) :
        a \in Opt(SchemaValues),
        o \in Opt({DictV(<<>>), DictV(<< <<<<"x">>, IntV(1)>> >>)}),
        k \in Opt({StrV(<<"x">>), StrV(<<"y">>), BoolV(TRUE)}),
        b \in Opt({IntV(2)})}

TypeNames ==
    {<<"s", "t", "r">>, <<"s", "t", "r", "i", "n", "g">>, <<"i", "n", "t">>, <<"i", "n", "t", "e", "g", "e", "r">>, <<"n", "u", "m", "b", "e", "r">>, <<"b", "o", "o", "l", "e", "a", "n">>, <<"o", "b", "j", "e", "c", "t">>}

\* properties.a: a type, an enum, or both
PropertySchemas ==
    {DictV(<< <<<<"t", "y", "p", "e">>, StrV(type)>> >>) : type \in TypeNames}
    \cup {DictV(<< <<<<"e", "n", "u", "m">>, ListV(<<StrV(<<"x">>), IntV(1)>>)>> >>),
          DictV(<< <<<<"t", "y", "p", "e">>, StrV(<<"s", "t", "r", "i", "n", "g">>)>>,
                   <<<<"e", "n", "u", "m">>, ListV(<<StrV(<<"x">>)>>)>> >>)}

\* properties.o: an object that requires x
NestedSchema ==
    DictV(<< <<<<"p", "r", "o", "p", "e", "r", "t", "i", "e", "s">>, DictV(<< <<<<"x">>, DictV(<<>>)>> >>)>>,
             <<<<"r", "e", "q", "u", "i", "r", "e", "d">>, ListV(<<StrV(<<"x">>)>>)>> >>)

\* an allOf rule: if properties.k (with or without const), then required b
Rule(if_condition, then_condition) ==
    DictV(Entries(<< <<<<"i", "f">>, if_condition>>, <<<<"t", "h", "e", "n">>, then_condition>> >>))
IfConst(const) ==
    DictV(<< <<<<"p", "r", "o", "p", "e", "r", "t", "i", "e", "s">>,
               DictV(<< <<<<"k">>, DictV(Entries(<< <<<<"c", "o", "n", "s", "t">>, const>> >>))>> >>)>> >>)
ThenRequired == DictV(<< <<<<"r", "e", "q", "u", "i", "r", "e", "d">>, ListV(<<StrV(<<"b">>)>>)>> >>)
RuleLists ==
    {<<Rule(if_condition, ThenRequired)>> :
        if_condition \in {Absent, DictV(<<>>), IfConst(Absent), IfConst(StrV(<<"x">>)),
                          IfConst(IntV(1))}}
    \cup {<<Rule(IfConst(StrV(<<"x">>)), Absent)>>,
          <<Rule(IfConst(StrV(<<"y">>)), DictV(<<>>)), Rule(IfConst(StrV(<<"x">>)), ThenRequired)>>}

Schemas ==
    {Entries(<< <<K_required, required>>,
                <<<<"p", "r", "o", "p", "e", "r", "t", "i", "e", "s">>,
                  IF a = Absent /\ o = Absent THEN Absent
                  ELSE DictV(Entries(<< <<<<"a">>, a>>, <<<<"o">>, o>> >>))>>,
                <<<<"a", "l", "l", "O", "f">>, rules>> >>) :
        required \in Opt({ListV(<<StrV(<<"b">>)>>)}),
        a \in Opt(PropertySchemas),
        o \in Opt({NestedSchema}),
        rules \in Opt({ListV(rules) : rules \in RuleLists})}

InitSchema ==
    /\ vd_pc = "call"
    /\ vd_data \in SchemaPayloads
    /\ vd_schema \in Schemas
    /\ vd_result = [t |-> "unset"]
    /\ LoadIdle /\ MatchIdle /\ ServeIdle /\ HookIdle /\ RenderIdle /\ LaterIdle /\ NoSettings

\* request_handler.py:332-357: returns None or raises
ValidateData ==
    /\ vd_pc = "call"
    /\ vd_result' = validate_data(vd_data, vd_schema)
    /\ vd_pc' = "done"
    /\ UNCHANGED <<vd_data, vd_schema, notValid>>

NextSchema == ValidateData

SpecSchema == InitSchema /\ [][NextSchema]_vars

(***************************************************************************)
(* replace_template_vars on its own: template_processor.py:128-146.        *)
(***************************************************************************)
TemplateStrings ==
    {<<"x">>, <<"}", "a", "{">>, <<"{", "a">>, <<"a", "}">>, <<"{", "a", "}">>, <<"n", "=", "{", "a", "}", "!">>, <<"{", "a", "}", "{", "a", "}">>, <<"{", "c", "}">>,
     <<"4", "2">>, <<"n", "o", "p", "e">>, <<"{", "$", "c", "u", "r", "r", "e", "n", "t", "_", "t", "i", "m", "e", "s", "t", "a", "m", "p", "}">>, <<"{", "$", "h", "a", "s", "h", "}">>, <<"{", "$", "w", "e", "b", "h", "o", "o", "k", "_", "u", "r", "l", "}">>}

TemplateScalars == {StrV(s) : s \in TemplateStrings} \cup {IntV(7), BoolV(TRUE), None}

\* a dict holding both _value and _type, in either order
TypedLeaf(value, type) == DictV(<< <<K_value, value>>, <<K_type, type>> >>)
TypedLeaves ==
    {TypedLeaf(value, type) :
        value \in {StrV(<<"4", "2">>), StrV(<<"n", "o", "p", "e">>), StrV(<<"{", "a", "}">>), StrV(<<" ", "7", " ">>),
                   StrV(<<"y", "e", "s">>), StrV(<<"{", "$", "h", "a", "s", "h", "}">>), IntV(5), None},
        type  \in {StrV(T_int), StrV(<<"I", "n", "t">>), StrV(T_bool), StrV(T_str), StrV(<<"z", "z">>),
                   IntV(1), None}}
    \cup {DictV(<< <<K_type, StrV(T_int)>>, <<K_value, StrV(<<"{", "a", "}">>)>> >>)}

TemplateLeaves == TemplateScalars \cup TypedLeaves

\* leaves, and objects and arrays that hold one
TemplateValues ==
    TemplateLeaves
    \cup {DictV(<< <<<<"k">>, leaf>> >>) : leaf \in TemplateLeaves}
    \cup {DictV(<< <<K_value, leaf>> >>) : leaf \in TemplateLeaves}
    \cup {ListV(<<leaf>>) : leaf \in TemplateLeaves}
    \cup {DictV(<< <<<<"{", "a", "}">>, ListV(<<leaf, StrV(<<"x">>)>>)>> >>) : leaf \in TemplateLeaves}

TemplateParams ==
    {<<>>,
     << <<K_a, StrV(<<"4", "2">>)>> >>,
     << <<K_a, StrV(<<"n", "o", "p", "e">>)>> >>,
     << <<K_a, IntV(42)>> >>,
     << <<K_a, StrV(<<"{", "b", "}">>)>>, <<K_b, StrV(<<"z">>)>> >>,
     << <<<<"x">>, StrV(<<"1">>)>>, <<<<"n", "o", "p", "e">>, StrV(<<"1">>)>> >>}

InitRender ==
    /\ tp_pc = "call"
    /\ tp_path \in {<<"a">>, <<"b">>}
    /\ tp_data \in TemplateValues
    /\ tp_params \in TemplateParams
    /\ tp_result = [t |-> "unset"]
    /\ settings \in {[WEBHOOK_URL |-> u] : u \in WebhookUrls}
    /\ LoadIdle /\ MatchIdle /\ ServeIdle /\ HookIdle /\ ValidIdle /\ LaterIdle

\* processor.process(data): the rendered value, or the exception raised
RenderCall ==
    /\ tp_pc = "call"
    /\ tp_result' = replace_template_vars(tp_path, tp_data, tp_params)
    /\ tp_pc' = "done"
    /\ UNCHANGED <<tp_path, tp_data, tp_params, settings, notRender>>

NextRender == RenderCall

SpecRender == InitRender /\ [][NextRender]_vars

(***************************************************************************)
(* _build_repeat_hierarchy on its own, one step per item.                  *)
(***************************************************************************)
MaxItems == 4

N_a       == <<"a">>
N_a_b     == <<"a", ".", "b">>
N_a_b_c   == <<"a", ".", "b", ".", "c">>
N_a_b_c_d == <<"a", ".", "b", ".", "c", ".", "d">>
N_b       == <<"b">>

ItemNames  == {N_a, N_a_b, N_a_b_c, N_a_b_c_d, N_b}
ItemCounts == {StrV(<<"2">>), StrV(<<"3">>)}
Items      == {Item(name, count) : name \in ItemNames, count \in ItemCounts}

\* test_hierarchical_repeat.py:22-25, 68-73
TestItems1 == <<Item(<<"c", "h", "a", "t", "s">>, StrV(<<"2">>)), Item(<<"c", "h", "a", "t", "s", ".", "u", "s", "e", "r", "s">>, StrV(<<"3">>))>>
TestItems3 == <<Item(<<"u", "s", "e", "r", "s">>, StrV(<<"5">>)), Item(<<"p", "r", "o", "d", "u", "c", "t", "s">>, StrV(<<"3">>)),
                Item(<<"p", "r", "o", "d", "u", "c", "t", "s", ".", "c", "a", "t", "e", "g", "o", "r", "i", "e", "s">>, StrV(<<"2">>)),
                Item(<<"o", "r", "d", "e", "r", "s">>, StrV(<<"4">>))>>

ItemLists ==
    UNION {[1..n -> Items] : n \in 0..MaxItems} \cup {TestItems1, TestItems3}

InitHier ==
    /\ hy_pc = "build"
    /\ hy_items \in ItemLists
    /\ hy_done = 0
    /\ hy_hierarchy = ListV(<<>>)
    /\ LoadIdle /\ MatchIdle /\ ServeIdle /\ HookIdle /\ ValidIdle /\ RenderIdle
    /\ RepeatIdle /\ LimitIdle /\ LastIdle /\ NoSettings

\* one pass of the for loop of lines 462-476
BuildItem ==
    /\ hy_pc = "build"
    /\ hy_done < Len(hy_items)
    /\ LET next == add_repeat_item(hy_hierarchy.v, hy_items[hy_done + 1])
       IN  /\ hy_hierarchy' = next
           /\ hy_pc' = IF IsExc(next) THEN "raised" ELSE "build"
    /\ hy_done' = hy_done + 1
    /\ UNCHANGED <<hy_items, notHier>>

\* line 478: return hierarchy
BuildReturn ==
    /\ hy_pc = "build"
    /\ hy_done = Len(hy_items)
    /\ hy_pc' = "built"
    /\ UNCHANGED <<hy_items, hy_done, hy_hierarchy, notHier>>

NextHier ==
    \/ BuildItem
    \/ BuildReturn

SpecHier == InitHier /\ [][NextHier]_vars

(***************************************************************************)
(* processing_result on its own, for route-methods with repeat items.      *)
(***************************************************************************)
MaxRepeatItems == 2

K_chats == <<"c", "h", "a", "t", "s">>
K_users == <<"u", "s", "e", "r", "s">>

\* unit templates: the declared response of the route-method
RepeatTemplates ==
    {DictV(<< <<K_chats, DictV(<< <<K_users, ListV(<<StrV(<<"u">>)>>)>> >>)>> >>),
     DictV(<< <<K_chats, ListV(<<DictV(<< <<K_users, ListV(<<StrV(<<"u">>)>>)>> >>)>>)>> >>),
     DictV(<< <<K_a, DictV(<< <<K_b, ListV(<<StrV(<<"y">>)>>)>> >>)>> >>),
     DictV(<< <<K_a, ListV(<<StrV(<<"x">>)>>)>> >>),
     ListV(<<StrV(<<"u">>)>>),
     ListV(<<DictV(<< <<<<"i", "d">>, StrV(<<"{", "n", "}">>)>> >>)>>),
     ListV(<<StrV(<<"u">>), StrV(<<"w">>)>>),
     StrV(<<"u">>)}

RepeatNames  == {N_root, N_a, N_a_b, K_chats, <<"c", "h", "a", "t", "s", ".", "u", "s", "e", "r", "s">>}
RepeatCounts == {StrV(<<"0">>), StrV(<<"3">>), StrV(<<"{", "n", "}">>), IntV(2)}
RepeatItemLists ==
    UNION {[1..n -> {Item(name, count) : name \in RepeatNames, count \in RepeatCounts}] :
              n \in 0..MaxRepeatItems}
    \cup {TestItems1}

RepeatParams == {<<>>, << <<<<"n">>, StrV(<<"2">>)>> >>}

InitRepeat ==
    /\ rp_pc = "call"
    /\ rp_path = <<"a">>
    /\ rp_response \in RepeatTemplates
    /\ rp_extra \in {RepeatExtra(items) : items \in RepeatItemLists}
    /\ rp_params \in RepeatParams
    /\ rp_hierarchy = [t |-> "unset"]
    /\ rp_result = [t |-> "unset"]
    /\ LoadIdle /\ MatchIdle /\ ServeIdle /\ HookIdle /\ ValidIdle /\ RenderIdle
    /\ HierIdle /\ LimitIdle /\ LastIdle /\ NoSettings

\* request_handler.py:420-447
ProcessingResult ==
    /\ rp_pc = "call"
    /\ rp_hierarchy' = IF RepeatItems(rp_extra) = <<>> THEN rp_hierarchy
                       ELSE _build_repeat_hierarchy(RepeatItems(rp_extra))
    /\ rp_result' = processing_result(rp_path, rp_response, rp_extra, rp_params)
    /\ rp_pc' = "done"
    /\ UNCHANGED <<rp_path, rp_response, rp_extra, rp_params, settings, notRepeat>>

NextRepeat == ProcessingResult

SpecRepeat == InitRepeat /\ [][NextRepeat]_vars

(***************************************************************************)
(* The rate_limit wrapper: request_handler.py:35-62.  Requests run the     *)
(* wrapper concurrently; time.time() advances in ticks of 1/TicksPerSec    *)
(* second and int() truncates it to whole seconds.                         *)
(***************************************************************************)
NProcs      == 2
MaxClock    == 5
TicksPerSec == 2
Limit       == 1
PeriodSec   == 1

Procs == 1..NProcs
Keys  == {"request:/a:10.0.0.1", "request:/a:10.0.0.2"}

\* int(time.time())
int_time(clock) == clock \div TicksPerSec

\* [ts for ts in timestamps if ts > now - period_sec]
within_period(timestamps, now) ==
    SelectSeq(timestamps, LAMBDA ts : ts > now - PeriodSec)

InitLimit ==
    /\ rl_clock = 0
    /\ rl_cache = [key \in Keys |-> <<>>]
    /\ rl_lock = 0
    /\ rl_pc = [p \in Procs |-> "start"]
    /\ rl_key \in [Procs -> Keys]
    /\ rl_now = [p \in Procs |-> 0]
    /\ rl_timestamps = [p \in Procs |-> <<>>]
    /\ rl_admitted = <<>>
    /\ LoadIdle /\ MatchIdle /\ ServeIdle /\ HookIdle /\ ValidIdle /\ RenderIdle
    /\ HierIdle /\ RepeatIdle /\ LastIdle /\ NoSettings

\* time passes
Tick ==
    /\ rl_clock < MaxClock
    /\ rl_clock' = rl_clock + 1
    /\ UNCHANGED <<rl_cache, rl_lock, rl_pc, rl_key, rl_now, rl_timestamps, rl_admitted,
                   notLimit>>

\* line 50: now = int(time.time())
ReadClock(p) ==
    /\ rl_pc[p] = "start"
    /\ rl_now' = [rl_now EXCEPT ![p] = int_time(rl_clock)]
    /\ rl_pc' = [rl_pc EXCEPT ![p] = "timed"]
    /\ UNCHANGED <<rl_clock, rl_cache, rl_lock, rl_key, rl_timestamps, rl_admitted, notLimit>>

\* line 51: with cache_lock
Acquire(p) ==
    /\ rl_pc[p] = "timed"
    /\ rl_lock = 0
    /\ rl_lock' = p
    /\ rl_pc' = [rl_pc EXCEPT ![p] = "locked"]
    /\ UNCHANGED <<rl_clock, rl_cache, rl_key, rl_now, rl_timestamps, rl_admitted, notLimit>>

\* lines 52-54
Filter(p) ==
    /\ rl_pc[p] = "locked"
    /\ rl_timestamps' = [rl_timestamps EXCEPT
                            ![p] = within_period(rl_cache[rl_key[p]], rl_now[p])]
    /\ rl_pc' = [rl_pc EXCEPT ![p] = "filtered"]
    /\ UNCHANGED <<rl_clock, rl_cache, rl_lock, rl_key, rl_now, rl_admitted, notLimit>>

\* mutant: a rejected attempt is recorded too
RejectCounting(p) ==
    /\ rl_pc[p] = "filtered"
    /\ Len(rl_timestamps[p]) >= Limit
    /\ rl_cache' = [rl_cache EXCEPT ![rl_key[p]] = Append(rl_timestamps[p], rl_now[p])]
    /\ rl_lock' = 0
    /\ rl_pc' = [rl_pc EXCEPT ![p] = "rejected"]
    /\ UNCHANGED <<rl_clock, rl_key, rl_now, rl_timestamps, rl_admitted, notLimit>>

\* lines 55-57: raise HTTPException(429), which releases the lock
Reject(p) ==
    /\ rl_pc[p] = "filtered"
    /\ Len(rl_timestamps[p]) >= Limit
    /\ rl_lock' = 0
    /\ rl_pc' = [rl_pc EXCEPT ![p] = "rejected"]
    /\ UNCHANGED <<rl_clock, rl_cache, rl_key, rl_now, rl_timestamps, rl_admitted, notLimit>>

\* lines 58-60: the timestamp is stored, the lock released and func awaited
Admit(p) ==
    /\ rl_pc[p] = "filtered"
    /\ Len(rl_timestamps[p]) < Limit
    /\ rl_timestamps' = [rl_timestamps EXCEPT ![p] = Append(@, rl_now[p])]
    /\ rl_cache' = [rl_cache EXCEPT ![rl_key[p]] = Append(rl_timestamps[p], rl_now[p])]
    /\ rl_lock' = 0
    /\ rl_pc' = [rl_pc EXCEPT ![p] = "admitted"]
    /\ rl_admitted' = Append(rl_admitted, <<rl_key[p], rl_clock>>)
    /\ UNCHANGED <<rl_clock, rl_key, rl_now, notLimit>>

\* line 60: return await func(self, request, ...): the handler answers or
\* raises (routing miss, validation failure); the wrapper has no except or
\* finally clause and the handler does not touch rate_limit_cache
Await(p) ==
    /\ rl_pc[p] = "admitted"
    /\ \E outcome \in {"returned", "raised"} : rl_pc' = [rl_pc EXCEPT ![p] = outcome]
    /\ UNCHANGED <<rl_clock, rl_cache, rl_lock, rl_key, rl_now, rl_timestamps, rl_admitted,
                   notLimit>>

NextLimit ==
    \/ Tick
    \/ \E p \in Procs : ReadClock(p)
    \/ \E p \in Procs : Acquire(p)
    \/ \E p \in Procs : Filter(p)
    \/ \E p \in Procs : Reject(p)
    \/ \E p \in Procs : Admit(p)
    \/ \E p \in Procs : Await(p)

SpecLimit == InitLimit /\ [][NextLimit]_vars

(***************************************************************************)
(* GeneratorId (utils/generators.py:14-40) and its two callers.  Threads   *)
(* run GeneratorId(name).get(is_next) one bytecode-level step at a time;   *)
(* a dict or attribute operation is atomic, a statement is not.            *)
(***************************************************************************)
NThreads == 2
MaxCalls == 4
Threads  == 1..NThreads
IdNames  == {<<"a">>, <<"b">>}
IdFuncs  == {"generate_next_id", "generate_string"}

\* self.ids of a GeneratorId object: dict numbers the dict objects assigned to
\* the attribute, ids is the value stored under self.name, NoKey when the dict
\* is empty
NoKey == -1
Object(initialized, dict, ids) == [initialized |-> initialized, dict |-> dict, ids |-> ids]

ThreadIdle ==
    [pc |-> "idle", func |-> "generate_next_id", name |-> <<>>, self |-> 0, dict |-> 0,
     value |-> 0]

\* mutant: every caller increments
is_next_always(func) == TRUE

\* generate_next_id calls get(), generate_string calls get(False)
is_next(func) == func = "generate_next_id"

\* lines 87, 91-93: what the caller makes of the value get returned
generate_next_id(value) == NatStr((value % 10) + 1)
generate_string(value)  == <<"T", "e", "s", "t", " ">> \o NatStr(value)

Returned(p, raised, value) ==
    [func |-> gi_thread[p].func, name |-> gi_thread[p].name,
     self |-> gi_thread[p].self, raised |-> raised, value |-> value,
     out |-> IF raised THEN <<>>
             ELSE IF is_next(gi_thread[p].func) THEN generate_next_id(value)
             ELSE generate_string(value)]

InitIds ==
    /\ gi_instances = [name \in IdNames |-> 0]
    /\ gi_objs = <<>>
    /\ gi_thread = [p \in Threads |-> ThreadIdle]
    /\ gi_returns = <<>>
    /\ LoadIdle /\ MatchIdle /\ ServeIdle /\ HookIdle /\ ValidIdle /\ RenderIdle
    /\ HierIdle /\ RepeatIdle /\ LimitIdle /\ AliasIdle /\ NoSettings

\* the statement a thread is at: "idle" | "new" | "create" | "lookup" | "init"
\* | "init_ids" | "init_done" | "get" | "load" | "store" | "return"
At(p, pc) == gi_thread[p].pc = pc
Goto(p, pc) == gi_thread' = [gi_thread EXCEPT ![p].pc = pc]

\* the calls made so far
Calls == Len(gi_returns) + Cardinality({p \in Threads : ~At(p, "idle")})

\* generators.py:85-87, 90-93: a thread calls one of the two functions
Begin(p) ==
    /\ At(p, "idle")
    /\ Calls < MaxCalls
    /\ \E func \in IdFuncs, name \in IdNames :
          gi_thread' = [gi_thread EXCEPT ![p] =
                           [ThreadIdle EXCEPT !.pc = "new", !.func = func, !.name = name]]
    /\ UNCHANGED <<gi_instances, gi_objs, gi_returns, notIds>>

\* the same call, made while no other call is in progress
BeginAlone(p) ==
    /\ \A q \in Threads : At(q, "idle")
    /\ Begin(p)

\* line 23: if name not in cls._instances
NewCheck(p) ==
    /\ At(p, "new")
    /\ Goto(p, IF gi_instances[gi_thread[p].name] = 0 THEN "create" ELSE "lookup")
    /\ UNCHANGED <<gi_instances, gi_objs, gi_returns, notIds>>

\* lines 24-26: a new object, _initialized False, stored under the name
NewCreate(p) ==
    /\ At(p, "create")
    /\ gi_objs' = Append(gi_objs, Object(FALSE, 0, NoKey))
    /\ gi_instances' = [gi_instances EXCEPT ![gi_thread[p].name] = Len(gi_objs) + 1]
    /\ Goto(p, "lookup")
    /\ UNCHANGED <<gi_returns, notIds>>

\* line 27: return cls._instances[name]
NewReturn(p) ==
    /\ At(p, "lookup")
    /\ gi_thread' = [gi_thread EXCEPT ![p].pc = "init",
                                      ![p].self = gi_instances[gi_thread[p].name]]
    /\ UNCHANGED <<gi_instances, gi_objs, gi_returns, notIds>>

\* lines 30-31: if getattr(self, "_initialized", False): return
InitCheck(p) ==
    /\ At(p, "init")
    /\ Goto(p, IF gi_objs[gi_thread[p].self].initialized THEN "get" ELSE "init_ids")
    /\ UNCHANGED <<gi_instances, gi_objs, gi_returns, notIds>>

\* lines 32-33: self.name = name; self.ids = {}
InitIdsDict(p) ==
    /\ At(p, "init_ids")
    /\ gi_objs' = [gi_objs EXCEPT ![gi_thread[p].self] =
                      Object(@.initialized, @.dict + 1, NoKey)]
    /\ Goto(p, "init_done")
    /\ UNCHANGED <<gi_instances, gi_returns, notIds>>

\* line 34: self._initialized = True
InitDone(p) ==
    /\ At(p, "init_done")
    /\ gi_objs' = [gi_objs EXCEPT ![gi_thread[p].self].initialized = TRUE]
    /\ Goto(p, "get")
    /\ UNCHANGED <<gi_instances, gi_returns, notIds>>

\* lines 37-38: self.ids.setdefault(self.name, 0); if is_next
SetDefault(p) ==
    /\ At(p, "get")
    /\ gi_objs' = [gi_objs EXCEPT ![gi_thread[p].self].ids = IF @ = NoKey THEN 0 ELSE @]
    /\ Goto(p, IF is_next(gi_thread[p].func) THEN "load" ELSE "return")
    /\ UNCHANGED <<gi_instances, gi_returns, notIds>>

\* line 39, first half: the value of self.ids[self.name] is read; KeyError when
\* another thread has assigned a new dict to self.ids since line 37
Load(p) ==
    /\ At(p, "load")
    /\ LET obj == gi_objs[gi_thread[p].self]
       IN  IF obj.ids = NoKey
           THEN /\ gi_returns' = Append(gi_returns, Returned(p, TRUE, 0))
                /\ gi_thread' = [gi_thread EXCEPT ![p] = ThreadIdle]
           ELSE /\ gi_thread' = [gi_thread EXCEPT ![p].pc = "store", ![p].dict = obj.dict,
                                                 ![p].value = obj.ids]
                /\ UNCHANGED gi_returns
    /\ UNCHANGED <<gi_instances, gi_objs, notIds>>

\* line 39, second half: the value plus one is stored in the dict that was read,
\* which is no longer self.ids when another thread has assigned a new one
Store(p) ==
    /\ At(p, "store")
    /\ gi_objs' = [gi_objs EXCEPT ![gi_thread[p].self].ids =
                      IF gi_objs[gi_thread[p].self].dict = gi_thread[p].dict
                      THEN gi_thread[p].value + 1 ELSE @]
    /\ Goto(p, "return")
    /\ UNCHANGED <<gi_instances, gi_returns, notIds>>

\* line 40: return self.ids[self.name]
ReturnId(p) ==
    /\ At(p, "return")
    /\ LET obj == gi_objs[gi_thread[p].self]
       IN  gi_returns' = Append(gi_returns, IF obj.ids = NoKey THEN Returned(p, TRUE, 0)
                                            ELSE Returned(p, FALSE, obj.ids))
    /\ gi_thread' = [gi_thread EXCEPT ![p] = ThreadIdle]
    /\ UNCHANGED <<gi_instances, gi_objs, notIds>>

\* the steps of a call in progress
Step(p) ==
    \/ NewCheck(p)
    \/ NewCreate(p)
    \/ NewReturn(p)
    \/ InitCheck(p)
    \/ InitIdsDict(p)
    \/ InitDone(p)
    \/ SetDefault(p)
    \/ Load(p)
    \/ Store(p)
    \/ ReturnId(p)

\* threads call and run concurrently
NextIds ==
    \/ \E p \in Threads : Begin(p)
    \/ \E p \in Threads : Step(p)

SpecIds == InitIds /\ [][NextIds]_vars

\* one call at a time
NextIdsSeq ==
    \/ \E p \in Threads : BeginAlone(p)
    \/ \E p \in Threads : Step(p)

SpecIdsSeq == InitIds /\ [][NextIdsSeq]_vars

(***************************************************************************)
(* The response template as Python objects: template_processor.py:100-146  *)
(* and request_handler.py:541-718 with object identity. A dict or a list   *)
(* is an object with an address, and a name or a slot that holds it holds  *)
(* a reference; str, int, bool and None are immutable and stand for        *)
(* themselves. processing_result is synchronous code: one request runs it  *)
(* at a time, and what a request allocated is unreachable once it is over. *)
(***************************************************************************)
MaxCount == 2

Ref(a) == [t |-> "ref", a |-> a]

\* the object a value denotes
Obj(heap, val) == IF val.t = "ref" THEN heap[val.a] ELSE val

\* what a call leaves: the heap after it and the value returned or the
\* exception raised
Out(heap, val) == [heap |-> heap, val |-> val]

\* a dict display, list display or comprehension: a new object
New(heap, obj) == Out(Append(heap, obj), Ref(Len(heap) + 1))

\* template_processor.py:109, 111: the comprehension over the items of a dict
\* (kind "dict") or of a list, todo being the items not yet visited
RECURSIVE _replace_vars_obj(_, _, _, _, _)
RECURSIVE ReplaceEach(_, _, _, _, _, _)
ReplaceEach(heap, path, params, kind, todo, done) ==
    IF todo = <<>> THEN New(heap, [t |-> kind, v |-> done])
    ELSE LET out == IF kind = "dict"
                    THEN _replace_vars_obj(heap, path, params, Head(todo)[2], Head(todo)[1])
                    ELSE _replace_vars_obj(heap, path, params, Head(todo), None)
         IN  IF IsExc(out.val) THEN out
             ELSE ReplaceEach(out.heap, path, params, kind, Tail(todo),
                              Append(done, IF kind = "dict" THEN <<Head(todo)[1], out.val>>
                                           ELSE out.val))

\* DataProcessor._replace_vars on objects
_replace_vars_obj(heap, path, params, data, key) ==
    CASE data.t = "ref" ->
            ReplaceEach(heap, path, params, heap[data.a].t, heap[data.a].v, <<>>)
      [] data.t = "str" -> Out(heap, replace(path, data, params, key))
      [] OTHER -> Out(heap, data)

\* template_processor.py:121, 123
RECURSIVE _transform_data_obj(_, _, _, _)
RECURSIVE TransformEach(_, _, _, _, _, _)
TransformEach(heap, path, params, kind, todo, done) ==
    IF todo = <<>> THEN New(heap, [t |-> kind, v |-> done])
    ELSE LET out == _transform_data_obj(heap, path, params,
                                        IF kind = "dict" THEN Head(todo)[2] ELSE Head(todo))
         IN  IF IsExc(out.val) THEN out
             ELSE TransformEach(out.heap, path, params, kind, Tail(todo),
                                Append(done, IF kind = "dict" THEN <<Head(todo)[1], out.val>>
                                             ELSE out.val))

\* DataProcessor._transform_data on objects
_transform_data_obj(heap, path, params, data) ==
    IF data.t # "ref" THEN Out(heap, data)
    ELSE IF can_transform(heap[data.a])
    THEN Out(heap, transform(path, heap[data.a], params))
    ELSE TransformEach(heap, path, params, heap[data.a].t, heap[data.a].v, <<>>)

\* line 104: return self._transform_data(data), data being what line 101 left
Transformed(out, path, params) ==
    IF IsExc(out.val) THEN out ELSE _transform_data_obj(out.heap, path, params, out.val)

\* mutant: the stored template itself is handed to the caller
replace_template_vars_shared(heap, path, data, params) == Out(heap, data)

\* replace_template_vars(path, data, params) on objects
replace_template_vars_obj(heap, path, data, params) ==
    Transformed(_replace_vars_obj(heap, path, params, data, None), path, params)

\* for _ in range(count): results.append(replace_template_vars(path, response,
\* params)); results is a list no object refers to
RECURSIVE RenderTimes(_, _, _, _, _, _)
RenderTimes(heap, path, response, params, count, results) ==
    IF count <= 0 THEN Out(heap, ListV(results))
    ELSE LET out == replace_template_vars_obj(heap, path, response, params)
         IN  IF IsExc(out.val) THEN out
             ELSE RenderTimes(out.heap, path, response, params, count - 1,
                              Append(results, out.val))

\* val[name], val[0] and name in val, val being a value or what raised before
ObjGet(heap, val, name) == IF IsExc(val) THEN val ELSE py_getitem(Obj(heap, val), name)
ObjFirst(heap, val)     == IF IsExc(val) THEN val ELSE py_first(Obj(heap, val))
ObjIn(heap, name, val)  == IF IsExc(val) THEN val ELSE py_in(name, Obj(heap, val))

\* val[name] = value
ObjSet(heap, val, name, value) ==
    IF val.t = "ref" /\ heap[val.a].t = "dict"
    THEN Out([heap EXCEPT ![val.a] = DictV(DictSet(@.v, name, value))], val)
    ELSE Out(heap, py_setitem(Obj(heap, val), name, value))

\* request_handler.py:674-688: extracted_data is a new list; extend and append
\* store in it the very values the results hold
RECURSIVE ExtractObj(_, _, _, _, _)
ExtractObj(heap, results, name, parent_name, extracted_data) ==
    IF results = <<>> THEN New(heap, ListV(extracted_data))
    ELSE LET under   == IF parent_name.t = "str" /\ parent_name.v # <<>>
                        THEN ObjFirst(heap, ObjGet(heap, Head(results), parent_name.v))
                        ELSE Head(results)
             present == ObjIn(heap, name, under)
             found   == IF IsExc(present) THEN present
                        ELSE IF present.v THEN ObjGet(heap, under, name) ELSE None
         IN  IF IsExc(found) THEN Out(heap, found)
             ELSE IF ~present.v
             THEN ExtractObj(heap, Tail(results), name, parent_name, extracted_data)
             ELSE ExtractObj(heap, Tail(results), name, parent_name,
                             IF Obj(heap, found).t = "list"
                             THEN extracted_data \o Obj(heap, found).v
                             ELSE Append(extracted_data, found))

\* _extract_data_by_name(results, name, parent_name) on objects; out is what the
\* loop that filled results left
_extract_data_by_name_obj(out, name, parent_name) ==
    IF IsExc(out.val) THEN out ELSE ExtractObj(out.heap, out.val.v, name, parent_name, <<>>)

\* lines 657-659: nested_data = {}; nested_data[child_name] = extracted_child_data
NestedData(out, child_name) ==
    IF IsExc(out.val) THEN out ELSE New(out.heap, DictV(<< <<child_name, out.val>> >>))

\* _merge_nested_data on objects: update (line 710) and extend (line 713)
\* change the object they are called on, line 716 the dict parent_result
_merge_nested_data_obj(heap, parent_result, parent_name, nested_data) ==
    LET present == ObjIn(heap, parent_name, parent_result)
    IN  IF IsExc(present) THEN Out(heap, present)
        ELSE IF ~present.v THEN ObjSet(heap, parent_result, parent_name, nested_data)
        ELSE LET current == ObjGet(heap, parent_result, parent_name)
             IN  IF IsExc(current) THEN Out(heap, current)
                 ELSE IF Obj(heap, current).t = "dict"
                 THEN Out([heap EXCEPT ![current.a] =
                              DictV(dict_update(@.v, heap[nested_data.a].v))],
                          parent_result)
                 ELSE LET first  == ObjFirst(heap, current)
                          key    == IF heap[nested_data.a].v = <<>>
                                    THEN IndexError("list index out of range")
                                    ELSE StrV(heap[nested_data.a].v[1][1])
                          target == IF IsExc(first) THEN first
                                    ELSE IF IsExc(key) THEN key
                                    ELSE ObjGet(heap, first, key.v)
                      IN  IF IsExc(target) THEN Out(heap, target)
                          ELSE IF Obj(heap, target).t # "list"
                          THEN Out(heap, AttributeError("object has no attribute 'extend'"))
                          ELSE Out([heap EXCEPT ![target.a] =
                                       ListV(@.v \o Obj(heap, heap[nested_data.a].v[1][2]).v)],
                                   parent_result)

\* [item for sublist in results for item in sublist]: a new list
FlattenObj(heap, results) ==
    LET sublists == [i \in 1..Len(results) |-> py_iter(Obj(heap, results[i]))]
    IN  IF \E i \in 1..Len(results) : IsExc(sublists[i])
        THEN Out(heap, sublists[Min({i \in 1..Len(results) : IsExc(sublists[i])})])
        ELSE New(heap, Flatten(sublists, <<>>))

(***************************************************************************)
(* Requests on one route-method with a repeat item, one after the other.   *)
(***************************************************************************)
\* MethodConfig.response as load_configs stored it: the objects and the value
\* of the field
StoredResponse(heap, response) == [heap |-> heap, response |-> response]

StoredResponses ==
    {\* {"chats": {"users": ["u{a}"]}}
     StoredResponse(<<ListV(<<StrV(<<"u", "{", "a", "}">>)>>),
              DictV(<< <<K_users, Ref(1)>> >>),
              DictV(<< <<K_chats, Ref(2)>> >>)>>, Ref(3)),
     \* {"chats": [{"users": ["u"]}]}
     StoredResponse(<<ListV(<<StrV(<<"u">>)>>),
              DictV(<< <<K_users, Ref(1)>> >>),
              ListV(<<Ref(2)>>),
              DictV(<< <<K_chats, Ref(3)>> >>)>>, Ref(4)),
     \* {"a": "x", "n": {"_value": "4", "_type": "int"}}
     StoredResponse(<<DictV(<< <<K_value, StrV(<<"4">>)>>, <<K_type, StrV(T_int)>> >>),
              DictV(<< <<K_a, StrV(<<"x">>)>>, <<<<"n">>, Ref(1)>> >>)>>, Ref(2)),
     \* {"users": ["u"]}
     StoredResponse(<<ListV(<<StrV(<<"u">>)>>),
              DictV(<< <<K_users, Ref(1)>> >>)>>, Ref(2)),
     \* [["u"], ["{$hash}"]]
     StoredResponse(<<ListV(<<StrV(<<"u">>)>>),
              ListV(<<StrV(<<"{", "$", "h", "a", "s", "h", "}">>)>>),
              ListV(<<Ref(1), Ref(2)>>)>>, Ref(3)),
     \* [{"users": ["w"]}]
     StoredResponse(<<ListV(<<StrV(<<"w">>)>>),
              DictV(<< <<K_users, Ref(1)>> >>),
              ListV(<<Ref(2)>>)>>, Ref(3))}

\* a repeat item item_name, with the child item_name.child_name when nested;
\* count and child_count are what the count fields parse to
RepeatRequest(item_name, nested, count, child_count, params) ==
    [item_name |-> item_name, child_name |-> K_users, nested |-> nested,
     count |-> count, child_count |-> child_count, params |-> params]

RepeatRequests ==
    {RepeatRequest(item_name, nested, count, child_count, params) :
        item_name \in {K_chats, K_a, N_root}, nested \in BOOLEAN,
        count \in 1..MaxCount, child_count \in 0..MaxCount,
        params \in {<<>>, << <<K_a, StrV(<<"z">>)>> >>}}

Frame(parent_result, nested_data, results, outcome) ==
    [parent_result |-> parent_result, nested_data |-> nested_data,
     results |-> results, outcome |-> outcome]

InitAlias ==
    /\ al_pc = "idle"
    /\ al_stored \in StoredResponses
    /\ al_heap = al_stored.heap
    /\ al_response = al_stored.response
    /\ al_req = <<>>
    /\ al_frame = Frame(None, None, <<>>, "none")
    /\ LoadIdle /\ MatchIdle /\ ServeIdle /\ HookIdle /\ ValidIdle /\ RenderIdle
    /\ HierIdle /\ RepeatIdle /\ LimitIdle /\ IdsIdle /\ NoSettings

\* the objects of the declaration; those the request allocated are unreachable
\* once processing_result has returned or raised
Surviving(heap) == SubSeq(heap, 1, Len(al_stored.heap))

\* the call is over: outcome is "returned" or "raised"
Ends(heap, outcome) ==
    /\ al_pc' = "idle"
    /\ al_heap' = Surviving(heap)
    /\ al_frame' = Frame(None, None, <<>>, outcome)

\* lines 431-435, 560-564: a request whose route-method declares the item
ReceiveRepeat ==
    /\ al_pc = "idle"
    /\ al_req' \in RepeatRequests
    /\ al_frame' = Frame(None, None, <<>>, al_frame.outcome)
    /\ al_pc' = "loop"
    /\ UNCHANGED <<al_heap, al_stored, al_response, notAlias>>

\* lines 568-569, 582: one more replace_template_vars(path, response, params)
RenderUnit ==
    /\ al_pc = "loop"
    /\ Len(al_frame.results) < al_req.count
    /\ LET out == replace_template_vars_obj(al_heap, <<"a">>, al_response, al_req.params)
       IN  IF IsExc(out.val) THEN Ends(out.heap, "raised")
           ELSE /\ al_heap' = out.heap
                /\ IF al_req.nested
                   THEN /\ al_frame' = [al_frame EXCEPT !.parent_result = out.val]
                        /\ al_pc' = "children"
                   ELSE /\ al_frame' = [al_frame EXCEPT !.results = Append(@, out.val)]
                        /\ al_pc' = "loop"
    /\ UNCHANGED <<al_stored, al_response, al_req, notAlias>>

\* lines 585-587: _process_nested_children for the one child, a leaf (lines
\* 651-659)
ProcessNestedChildren ==
    /\ al_pc = "children"
    /\ LET out == NestedData(
                      _extract_data_by_name_obj(
                          RenderTimes(al_heap, <<"a">>, al_response, al_req.params,
                                      al_req.child_count, <<>>),
                          al_req.child_name, StrV(al_req.item_name)),
                      al_req.child_name)
       IN  IF IsExc(out.val) THEN Ends(out.heap, "raised")
           ELSE /\ al_heap' = out.heap
                /\ al_frame' = [al_frame EXCEPT !.nested_data = out.val]
                /\ al_pc' = "merge"
    /\ UNCHANGED <<al_stored, al_response, al_req, notAlias>>

\* lines 590-594
MergeNestedData ==
    /\ al_pc = "merge"
    /\ LET out == _merge_nested_data_obj(al_heap, al_frame.parent_result,
                                         al_req.item_name, al_frame.nested_data)
       IN  IF IsExc(out.val) THEN Ends(out.heap, "raised")
           ELSE /\ al_heap' = out.heap
                /\ al_frame' = [al_frame EXCEPT !.results = Append(@, out.val)]
                /\ al_pc' = "loop"
    /\ UNCHANGED <<al_stored, al_response, al_req, notAlias>>

\* lines 572-577, 597-603: result is the flattened list, or {} with the
\* extracted data stored under item_name
Collect ==
    /\ al_pc = "loop"
    /\ Len(al_frame.results) = al_req.count
    /\ LET out == IF al_req.item_name = N_root
                  THEN FlattenObj(al_heap, al_frame.results)
                  ELSE NestedData(
                           _extract_data_by_name_obj(Out(al_heap, ListV(al_frame.results)),
                                                     al_req.item_name, None),
                           al_req.item_name)
       IN  IF IsExc(out.val) THEN Ends(out.heap, "raised")
           ELSE /\ al_heap' = out.heap
                /\ al_frame' = [al_frame EXCEPT !.parent_result = out.val]
                /\ al_pc' = "collect"
    /\ UNCHANGED <<al_stored, al_response, al_req, notAlias>>

\* line 605, processing_result line 442: return result
ReturnResult ==
    /\ al_pc = "collect"
    /\ Ends(al_heap, "returned")
    /\ UNCHANGED <<al_stored, al_response, al_req, notAlias>>

NextAlias ==
    \/ ReceiveRepeat
    \/ RenderUnit
    \/ ProcessNestedChildren
    \/ MergeNestedData
    \/ Collect
    \/ ReturnResult

SpecAlias == InitAlias /\ [][NextAlias]_vars

(***************************************************************************)
(* Properties of the registry and the matcher.                             *)
(***************************************************************************)

\* a segment wrapped in {}
Wrapped(seg) == Len(seg) >= 2 /\ seg[1] = "{" /\ seg[Len(seg)] = "}"

\* equal segment counts, and every declared segment wrapped or equal
SegmentsAgree(rs, qs) ==
    /\ Len(rs) = Len(qs)
    /\ \A i \in 1..Len(rs) : Wrapped(rs[i]) \/ rs[i] = qs[i]

\* the paths with their leading and trailing "/" removed, then split on "/"
StructuralMatch(route_path, request_path) ==
    SegmentsAgree(split(strip(route_path, "/"), "/"),
                  split(strip(request_path, "/"), "/"))

MethodNames(route) == [k \in 1..Len(route.methods) |-> route.methods[k].method]

\* C1: after load_configs has merged the declarations, no path of the merged
\* table carries two MethodConfig entries for the same method.
C1_OneConfigPerMethod ==
    ld_pc = "loaded" =>
        \A route \in Range(Config(routes_dict).routes) :
            \A i, j \in 1..Len(route.methods) :
                i # j => route.methods[i].method # route.methods[j].method

\* the declarations (by position in Declared) that name (path, method)
Naming(path, method) ==
    {i \in 1..NDeclared :
        /\ Declared[i].decl.path = path
        /\ method \in Range(MethodNames(Declared[i].decl))}

\* the method entries <<i, k>> of the declarations that replace a key of the
\* method map: the path was declared before, and the method was named by an
\* earlier declaration of the path or earlier in the same declaration
Replacing ==
    {ik \in (1..NDeclared) \X (1..Max({Len(names) : names \in MethodLists})) :
        LET i == ik[1]
            k == ik[2]
        IN  /\ k <= Len(Declared[i].decl.methods)
            /\ \E j \in 1..(i - 1) : Declared[j].decl.path = Declared[i].decl.path
            /\ \/ \E j \in 1..(i - 1) :
                      j \in Naming(Declared[i].decl.path, MethodNames(Declared[i].decl)[k])
               \/ \E l \in 1..(k - 1) :
                      MethodNames(Declared[i].decl)[l] = MethodNames(Declared[i].decl)[k]}

TableEntries(path, method) ==
    IF DictHas(routes_dict, path)
    THEN {mc \in Range(DictGet(routes_dict, path).methods) : mc.method = method}
    ELSE {}

NSkippedInputs == Len(SelectSeq(consumed, LAMBDA e : e.kind # "route"))

C4_SplitOnly ==
    m_result # None =>
        (m_result.v <=> SegmentsAgree(split(m_route, "/"), split(m_request, "/")))

\* C4: a declared path matches a request path if and only if, once the leading
\* and trailing "/" of both are stripped and both are split on "/", the segment
\* counts are equal and every declared segment is wrapped in {} or equal to the
\* request segment at its position; /items/{id} matches /items/42 and
\* /items/abc, not /items/42/extra or /items.
C4_StrippedSegments ==
    m_result # None =>
        /\ m_result.v <=> StructuralMatch(m_route, m_request)
        /\ (m_route = P_items_id /\ m_request \in {P_items_42, P_items_abc})
              => m_result.v
        /\ (m_route = P_items_id /\ m_request \in {P_items_42_extra, P_items})
              => ~m_result.v

C4_Witness ==
    /\ m_result = BoolV(TRUE)
    /\ m_route = P_items_id
    /\ m_request = P_items_42_slash

\* C5: get_route_config answers from the first declared path, in registry
\* order, that structurally matches the request path: its first entry for the
\* request method, "method not supported" when it has none, and "route not
\* found" when no declared path matches.
C5_FirstMatchingPath ==
    lookup # None =>
        LET routes   == Config(routes_dict).routes
            matching == {i \in 1..Len(routes) :
                            StructuralMatch(routes[i].path, lookup.path)}
        IN  IF matching = {}
            THEN lookup.res = ValueError("route_not_found")
            ELSE LET route == routes[Min(matching)]
                     named == {k \in 1..Len(route.methods) :
                                  route.methods[k].method = lookup.method}
                 IN  IF named = {}
                     THEN lookup.res = ValueError("method_not_supported")
                     ELSE lookup.res = [t |-> "cfg", v |-> route.methods[Min(named)]]

\* the first matching path lacks the method that a later matching path declares
C5_Witness ==
    /\ lookup # None
    /\ lookup.res = ValueError("method_not_supported")
    /\ \E route \in Range(Config(routes_dict).routes) :
          /\ StructuralMatch(route.path, lookup.path)
          /\ lookup.method \in Range(MethodNames(route))

(***************************************************************************)
(* Properties of the orchestrator and the side-effect dispatcher.          *)
(***************************************************************************)
Finished   == rq_state \in {"Responded", "Rejected"}
Reached(s) == s \in Range(rq_trace)

Rank(s) ==
    CASE s = "Received"     -> 1
      [] s = "Matched"      -> 2
      [] s = "Validated"    -> 3
      [] s = "SideEffected" -> 4
      [] s = "Rendered"     -> 5
      [] s = "Responded"    -> 6
      [] s = "Rejected"     -> 7

\* the request names a declared path and a method declared for it
Routable ==
    \E route \in Range(rq_config.routes) :
        /\ StructuralMatch(route.path, full_path(rq_request.path))
        /\ rq_request.method \in Range(MethodNames(route))

\* the fields the matched route-method validates: the json body for
\* POST/PUT/PATCH, the query string otherwise
Submitted ==
    IF rq_request.method \in {"POST", "PUT", "PATCH"}
    THEN (IF IsExc(rq_request.json) THEN <<>> ELSE rq_request.json.v)
    ELSE rq_request.query_params

\* the matched route-method declares a schema and the request lacks one of its
\* required fields
ViolatesSchema ==
    /\ Reached("Matched")
    /\ Truthy(rq_route_config.request_schema)
    /\ \E field \in Range(DictGet(rq_route_config.request_schema.v, K_required).v) :
          field.v \notin Range(DictKeys(Submitted))

\* C6: the states a request enters come in the order Received, Matched,
\* Validated, SideEffected, Rendered, Responded, each entered from the stage
\* before it (SideEffected and Rendered may be skipped, a browser path is
\* answered from Received), nothing follows Responded or Rejected, and a request
\* that is unroutable or violates the schema ends Rejected before Validated,
\* with no outbound webhook call, no redirect url and no rendered body.
C6_OrchestratorOrdering ==
    /\ rq_state = (IF rq_trace = <<>> THEN "Idle" ELSE rq_trace[Len(rq_trace)])
    /\ \A i \in 1..Len(rq_trace) :
          IF i = 1 THEN rq_trace[i] = "Received"
          ELSE LET prev == rq_trace[i - 1]
                   cur  == rq_trace[i]
               IN  /\ prev \notin {"Responded", "Rejected"}
                   /\ Rank(prev) < Rank(cur)
                   /\ cur = "Matched" => prev = "Received"
                   /\ cur = "Validated" => prev = "Matched"
                   /\ cur = "SideEffected" => prev = "Validated"
                   /\ cur = "Rendered" => prev \in {"Validated", "SideEffected"}
                   /\ cur = "Responded" => prev \in {"Received", "SideEffected", "Rendered"}
    /\ (Finished /\ ~is_browser_request(full_path(rq_request.path))
                 /\ (~Routable \/ ViolatesSchema))
          => rq_state = "Rejected" /\ ~Reached("Validated")
    /\ (rq_state = "Rejected" /\ ~Reached("Validated"))
          => /\ rq_outcalls = <<>>
             /\ rq_redirect_url = Unset
             /\ rq_rendered = Unset
             /\ rq_result.t = "exc"

\* a request rejected at schema validation on a route-method whose webhook and
\* redirect are both enabled
C6_Witness ==
    /\ rq_state = "Rejected"
    /\ ViolatesSchema
    /\ rq_trace = <<"Received", "Matched", "Rejected">>
    /\ WebhookOn(rq_route_config)
    /\ RedirectOn(rq_route_config)

\* the route-method has an enabled webhook with a data mapping, no enabled
\* redirect, and the request, validated, names one of the mapping's entries
WebhookCase ==
    /\ Reached("Validated")
    /\ WebhookOn(rq_route_config)
    /\ ~RedirectOn(rq_route_config)
    /\ rq_route_config.webhook.data_mapping.t = "dict"
    /\ Discriminator(rq_params).t = "str"
    /\ DictHas(rq_route_config.webhook.data_mapping.v, Discriminator(rq_params).v)

WebhookEntry ==
    DictGet(rq_route_config.webhook.data_mapping.v, Discriminator(rq_params).v).v

\* C7: for a route-method with webhook enabled and redirect disabled, a request
\* whose discriminator (user_created when absent) is a key of the data mapping
\* has the entry's url and data templates rendered and exactly one outbound
\* call issued with them, and when that call succeeds the request ends
\* Responded with the rendered declared response.
C7_WebhookThenRespond ==
    (Finished /\ WebhookCase) =>
        /\ Len(rq_outcalls) = 1
        /\ rq_outcalls[1].url
              = replace_template_vars(rq_request.path, DictGet(WebhookEntry, K_url), rq_params)
        /\ rq_outcalls[1].data
              = replace_template_vars(rq_request.path, DictGet(WebhookEntry, K_data), rq_params)
        /\ rq_outcalls[1].transport \notin TransportFailures
              => /\ rq_state = "Responded"
                 /\ rq_result = Return(replace_template_vars(rq_request.path,
                                           rq_route_config.response, rq_params))

\* the route-method has an enabled webhook with a data mapping and the request,
\* validated, names none of the mapping's entries
UnknownDiscriminator ==
    /\ Reached("Validated")
    /\ WebhookOn(rq_route_config)
    /\ rq_route_config.webhook.data_mapping.t = "dict"
    /\ Discriminator(rq_params).t = "str"
    /\ ~DictHas(rq_route_config.webhook.data_mapping.v, Discriminator(rq_params).v)

\* C8: webhook dispatch with a discriminator that is not a key of the configured
\* data mapping ends the request Rejected with a 4xx error whose detail carries
\* the keys of the data mapping, and no outbound call is issued for the request.
C8_UnknownDiscriminator ==
    (Finished /\ UnknownDiscriminator) =>
        /\ rq_state = "Rejected"
        /\ rq_result.t = "exc"
        /\ rq_result.status_code \in 400..499
        /\ rq_result.detail.exc = "HTTPException"
        /\ rq_result.detail.detail.available_types
              = DictKeys(rq_route_config.webhook.data_mapping.v)
        /\ rq_outcalls = <<>>
        /\ rq_rendered = Unset

C8_Witness ==
    /\ Finished
    /\ UnknownDiscriminator
    /\ Discriminator(rq_params) = StrV(D_zzz)
    /\ rq_result.detail.detail.available_types = <<D_user_created, D_paid>>

\* C9: when the POST of send_webhook fails, the try block of process_webhook
\* raises a 5xx HTTPException that carries the attempted url and payload.
C9_TransportFailureRaised ==
    (wh_pc = "done" /\ wh_transport \in TransportFailures) =>
        /\ wh_raised.t = "exc"
        /\ wh_raised.status_code \in 500..599
        /\ wh_raised.detail.webhook_url = wh_url
        /\ wh_raised.detail.webhook_data = wh_data

\* C10: no request both issues an outbound webhook call and is answered with a
\* redirect.
C10_OneSideEffect ==
    ~(rq_outcalls # <<>> /\ rq_redirect_url # Unset)

\* a request to a route-method with webhook and redirect both enabled that
\* passed validation and was answered
C10_Witness ==
    /\ Finished
    /\ Reached("Validated")
    /\ WebhookOn(rq_route_config)
    /\ RedirectOn(rq_route_config)
    /\ rq_route_config.webhook.data_mapping.t = "dict"
    /\ DictHas(rq_route_config.webhook.data_mapping.v, Discriminator(rq_params).v)
    /\ rq_route_config.redirect.parameters.t = "list"
    /\ settings.WEBHOOK_URL.t = "str"

\* C11: a validated request on a route-method with redirect enabled ends
\* Responded with status 302 and the built Location url, straight from the
\* side-effect stage and with no response body rendered; a validated request on
\* a route-method with neither webhook nor redirect enabled executes no
\* side-effect step.
C11_RedirectShortCircuit ==
    /\ (Finished /\ Reached("Validated") /\ RedirectOn(rq_route_config))
          => /\ rq_state = "Responded"
             /\ rq_result.t = "return"
             /\ rq_result.v.status_code = 302
             /\ rq_redirect_url.t = "str"
             /\ rq_result.v.headers.Location = rq_redirect_url
             /\ rq_rendered = Unset
             /\ ~Reached("Rendered")
    /\ (Finished /\ Reached("Validated")
                 /\ ~WebhookOn(rq_route_config) /\ ~RedirectOn(rq_route_config))
          => /\ ~Reached("SideEffected")
             /\ rq_outcalls = <<>>
             /\ rq_redirect_url = Unset

(***************************************************************************)
(* Properties of request validation.                                       *)
(***************************************************************************)
\* the required name is satisfied by the payload: "p.c" when payload[p] exists,
\* is an object and holds c; an undotted name when it is a key of the payload
Satisfied(payload, name) ==
    IF \E k \in 1..Len(name) : name[k] = "."
    THEN \E k \in 1..Len(name) :
            /\ name[k] = "." /\ \A j \in 1..(k - 1) : name[j] # "."
            /\ \E i \in 1..Len(payload) :
                  /\ payload[i][1] = SubSeq(name, 1, k - 1)
                  /\ payload[i][2].t = "dict"
                  /\ SubSeq(name, k + 1, Len(name)) \in Range(DictKeys(payload[i][2].v))
    ELSE name \in Range(DictKeys(payload))

RequiredOf(schema) ==
    IF DictHas(schema, K_required) THEN DictGet(schema, K_required).v ELSE <<>>

P_a1_b_empty == << <<K_a, IntV(1)>>, <<K_b, DictV(<<>>)>> >>
P_a1_b_c2    == << <<K_a, IntV(1)>>, <<K_b, DictV(<< <<K_c, IntV(2)>> >>)>> >>
S_a_bc       == << <<K_required, ListV(<<StrV(K_a), StrV(K_b_c)>>)>> >>

\* C12: _validate_required_fields accepts a payload if and only if every
\* required name is satisfied, a dotted name "p.c" by payload[p] existing, being
\* an object and holding c, an undotted name by being a key of the payload;
\* required = ["a", "b.c"] rejects {"a": 1, "b": {}} and accepts
\* {"a": 1, "b": {"c": 2}}.
C12_RequiredDotted ==
    vd_pc = "done" =>
        /\ (vd_result = None)
              <=> \A i \in 1..Len(RequiredOf(vd_schema)) :
                      Satisfied(vd_data, RequiredOf(vd_schema)[i].v)
        /\ vd_result # None => IsExc(vd_result)
        /\ (vd_schema = S_a_bc /\ vd_data = P_a1_b_empty) => IsExc(vd_result)
        /\ (vd_schema = S_a_bc /\ vd_data = P_a1_b_c2) => vd_result = None

\* the payload holds the literal key "b.c" and an empty object b, and is rejected
C12_Witness ==
    /\ vd_pc = "done"
    /\ vd_schema = S_a_bc
    /\ IsExc(vd_result)
    /\ K_b_c \in Range(DictKeys(vd_data))
    /\ K_a \in Range(DictKeys(vd_data))
    /\ <<K_b, DictV(<<>>)>> \in Range(vd_data)

\* the fields of the error body the rejected request is answered with
BodyFields ==
    IF rq_result.t = "exc" /\ rq_result.detail.exc = "HTTPException"
    THEN DOMAIN rq_result.detail.detail
    ELSE {}

\* C13: a request that violates the schema of its route-method ends Rejected
\* with a client-error status (400..499, never 5xx) and a structured body that
\* holds the violated-rule message, the rejected payload and the schema.
C13_StructuredValidationError ==
    (Finished /\ ViolatesSchema /\ ~IsExc(rq_request.json)) =>
        /\ rq_state = "Rejected"
        /\ rq_result.t = "exc"
        /\ rq_result.status_code \in 400..499
        /\ {"message", "received_data", "expected_format"} \subseteq BodyFields
        /\ rq_result.detail.detail.received_data = DictV(Submitted)
        /\ rq_result.detail.detail.expected_format = rq_route_config.request_schema

(***************************************************************************)
(* Properties of the template engine.                                      *)
(***************************************************************************)
\* the string holds a {...} token: a "{" with a "}" somewhere after it
HasTokenStr(s) ==
    \E i \in 1..Len(s) : \E j \in (i + 1)..Len(s) : s[i] = "{" /\ s[j] = "}"

\* the value holds a {...} token in a string or in a key, at any depth
RECURSIVE HasToken(_)
HasToken(x) ==
    CASE x.t = "str"  -> HasTokenStr(x.v)
      [] x.t = "dict" -> \E i \in 1..Len(x.v) : HasTokenStr(x.v[i][1]) \/ HasToken(x.v[i][2])
      [] x.t = "list" -> \E i \in 1..Len(x.v) : HasToken(x.v[i])
      [] OTHER -> FALSE

\* the value holds, at any depth, an object with both keys _value and _type
RECURSIVE HasTypedLeaf(_)
HasTypedLeaf(x) ==
    CASE x.t = "dict" -> \/ (K_value \in Range(DictKeys(x.v)) /\ K_type \in Range(DictKeys(x.v)))
                         \/ \E i \in 1..Len(x.v) : HasTypedLeaf(x.v[i][2])
      [] x.t = "list" -> \E i \in 1..Len(x.v) : HasTypedLeaf(x.v[i])
      [] OTHER -> FALSE

\* C14: rendering is the identity on a template value that holds no {...}
\* token, whatever the params.
C14_IdentityWithoutTokens ==
    (tp_pc = "done" /\ ~HasToken(tp_data)) => tp_result = tp_data

\* C14, amended: rendering is the identity on a template value that holds no
\* {...} token and no typed leaf (an object with both keys _value and _type),
\* whatever the params.
C14_IdentityWithoutTokensOrTypedLeaves ==
    (tp_pc = "done" /\ ~HasToken(tp_data) /\ ~HasTypedLeaf(tp_data)) => tp_result = tp_data

\* an array holding "nope", rendered with params that name the key "nope"
C14_Witness ==
    /\ tp_pc = "done"
    /\ tp_data = ListV(<<StrV(<<"n", "o", "p", "e">>)>>)
    /\ DictHas(tp_params, <<"n", "o", "p", "e">>)
    /\ tp_result = tp_data

\* the phase-1 value of the typed leaf tp_data: its _value after substitution
Substituted == replace(tp_path, DictGet(tp_data.v, K_value), tp_params, K_value)

\* C15: a typed leaf is coerced after substitution and its coercion never fails
\* the render: when substitution succeeds the render raises nothing, a leaf of
\* type int whose substituted value is "42" renders to the integer 42, and a
\* leaf of type int whose substituted value is not a number renders to that
\* substituted value.
C15_LenientCoercion ==
    (tp_pc = "done" /\ tp_data \in TypedLeaves /\ ~IsExc(Substituted)) =>
        /\ ~IsExc(tp_result)
        /\ DictGet(tp_data.v, K_type) = StrV(T_int) =>
              /\ Substituted = StrV(<<"4", "2">>) => tp_result = IntV(42)
              /\ IsExc(py_int(Substituted)) => tp_result = Substituted

(***************************************************************************)
(* Properties of the repeat hierarchy.                                     *)
(***************************************************************************)
\* the items list a dotted chain parent-first: a, a.b, a.b.c, ...
IsChain(items) ==
    /\ items # <<>>
    /\ \A i \in 1..Len(items) :
          /\ Len(split(items[i].name, ".")) = i
          /\ i > 1 => SubSeq(split(items[i].name, "."), 1, i - 1)
                         = split(items[i - 1].name, ".")

\* node and its descendants are the chain of items k, k+1, ..., one child per
\* level, each with the count declared for it
RECURSIVE IsChainNode(_, _, _)
IsChainNode(node, items, k) ==
    /\ node.name = split(items[k].name, ".")[k]
    /\ node.count = items[k].count
    /\ IF k = Len(items)
       THEN node.children \in {Missing, ListV(<<>>)}
       ELSE /\ node.children # Missing
            /\ Len(node.children.v) = 1
            /\ IsChainNode(node.children.v[1], items, k + 1)

HierFinished == hy_pc \in {"built", "raised"}

\* C16: for items that list a dotted chain parent-first, at any depth,
\* _build_repeat_hierarchy completes and returns a single root whose
\* descendants form one chain, one child per level, every node with the count
\* declared for it.
C16_ChainHierarchy ==
    (HierFinished /\ IsChain(hy_items)) =>
        /\ hy_pc = "built"
        /\ Len(hy_hierarchy.v) = 1
        /\ IsChainNode(hy_hierarchy.v[1], hy_items, 1)

\* no level of the tree holds two nodes with one name
RECURSIVE UniqueNames(_)
UniqueNames(level) ==
    /\ \A i, j \in 1..Len(level) : level[i].name = level[j].name => i = j
    /\ \A i \in 1..Len(level) :
          level[i].children # Missing => UniqueNames(level[i].children.v)

\* the first node reached from the level by the names of parts (Missing: none)
RECURSIVE NodeAt(_, _)
NodeAt(level, parts) ==
    LET i == IndexOfName(level, Head(parts))
    IN  IF i = 0 THEN Missing
        ELSE IF Len(parts) = 1 THEN level[i]
        ELSE IF level[i].children = Missing THEN Missing
        ELSE NodeAt(level[i].children.v, Tail(parts))

\* every declared name has a node, with the count of its last declaration
CountsUpdated(hierarchy, items) ==
    \A i \in 1..Len(items) :
        (\A j \in (i + 1)..Len(items) : items[j].name # items[i].name)
            => LET node == NodeAt(hierarchy, split(items[i].name, "."))
               IN  node # Missing /\ node.count = items[i].count

\* C17: after _build_repeat_hierarchy over any item list no level of the tree
\* holds two nodes with the same name, a re-declared name has its count updated
\* in place, and distinct root names each yield their own root: users,
\* products, products.categories, orders gives 3 roots, products having the
\* single child categories with count 2.
C17_MergeByName ==
    hy_pc = "built" =>
        /\ UniqueNames(hy_hierarchy.v)
        /\ CountsUpdated(hy_hierarchy.v, hy_items)
        /\ hy_items = TestItems3 =>
              /\ Len(hy_hierarchy.v) = 3
              /\ NodeAt(hy_hierarchy.v, <<<<"p", "r", "o", "d", "u", "c", "t", "s">>>>).children
                    = ListV(<<Node(<<"c", "a", "t", "e", "g", "o", "r", "i", "e", "s">>, StrV(<<"2">>), Missing)>>)

(***************************************************************************)
(* Properties of the repeat expansion.                                     *)
(***************************************************************************)
\* the count an item declares, rendered against the params, is the number n
Declares(item, n) ==
    LET rendered == replace(rp_path, item.count, rp_params, None)
    IN  rendered.t \in {"int", "str"} /\ py_int(rendered) = IntV(n)

\* the items are a parent with count P and its child with count C, and the unit
\* template is {parent: {child: [one entry]}}
NestedCase(P, C) ==
    /\ Len(RepeatItems(rp_extra)) = 2
    /\ LET parent == RepeatItems(rp_extra)[1]
           child  == RepeatItems(rp_extra)[2]
       IN  /\ Len(split(parent.name, ".")) = 1
           /\ parent.name # N_root
           /\ Len(split(child.name, ".")) = 2
           /\ split(child.name, ".")[1] = parent.name
           /\ Declares(parent, P) /\ Declares(child, C)
           /\ rp_response.t = "dict" /\ Len(rp_response.v) = 1
           /\ rp_response.v[1][1] = parent.name
           /\ rp_response.v[1][2].t = "dict" /\ Len(rp_response.v[1][2].v) = 1
           /\ rp_response.v[1][2].v[1][1] = split(child.name, ".")[2]
           /\ rp_response.v[1][2].v[1][2].t = "list"
           /\ Len(rp_response.v[1][2].v[1][2].v) = 1

\* C18: for a parent item with count P and a child item with count C the
\* result holds, under the parent's name, an array of P elements, each holding
\* C child entries; chats = 2, chats.users = 3 over {"chats": {"users": ["u"]}}
\* gives 2 chats with 3 users each, 6 in all.
C18_NestedCounts ==
    \A P, C \in 1..3 :
        (rp_pc = "done" /\ NestedCase(P, C)) =>
            LET parent == RepeatItems(rp_extra)[1].name
                child  == split(RepeatItems(rp_extra)[2].name, ".")[2]
            IN  /\ rp_result.t = "dict"
                /\ DictKeys(rp_result.v) = <<parent>>
                /\ DictGet(rp_result.v, parent).t = "list"
                /\ Len(DictGet(rp_result.v, parent).v) = P
                /\ \A i \in 1..P :
                      LET element == DictGet(rp_result.v, parent).v[i]
                      IN  /\ element.t = "dict"
                          /\ DictHas(element.v, child)
                          /\ DictGet(element.v, child).t = "list"
                          /\ Len(DictGet(element.v, child).v) = C

\* the only item is named root, declares the count N, and the unit template is
\* an array of one element
RootCase(N) ==
    /\ Len(RepeatItems(rp_extra)) = 1
    /\ RepeatItems(rp_extra)[1].name = N_root
    /\ Declares(RepeatItems(rp_extra)[1], N)
    /\ rp_response.t = "list" /\ Len(rp_response.v) = 1

\* C19: a single item named root with count N over a unit template that is an
\* array of one element yields a flat top-level array of exactly N elements,
\* each the rendered element, and no object with a root key.
C19_RootFlattens ==
    \A N \in 0..3 :
        (rp_pc = "done" /\ RootCase(N)) =>
            /\ rp_result.t = "list"
            /\ Len(rp_result.v) = N
            /\ \A i \in 1..N :
                  rp_result.v[i] = replace_template_vars(rp_path, rp_response, rp_params).v[1]

\* root with count "{n}", n = 2, over [{"id": "{n}"}]
C19_Witness ==
    /\ rp_pc = "done"
    /\ RootCase(2)
    /\ RepeatItems(rp_extra)[1].count = StrV(<<"{", "n", "}">>)
    /\ rp_response.v[1].t = "dict"
    /\ rp_result = ListV(<<DictV(<< <<<<"i", "d">>, StrV(<<"2">>)>> >>),
                           DictV(<< <<<<"i", "d">>, StrV(<<"2">>)>> >>)>>)

(***************************************************************************)
(* Properties of the rate limiter.                                         *)
(***************************************************************************)
\* the request of p passed the limiter
LetThrough(p) == rl_pc[p] \in {"admitted", "returned", "raised"}

\* the requests of the key let through at a time in the window (from, from + period_sec]
AdmittedIn(key, from) ==
    {i \in 1..Len(rl_admitted) :
        /\ rl_admitted[i][1] = key
        /\ rl_admitted[i][2] > from
        /\ rl_admitted[i][2] <= from + PeriodSec * TicksPerSec}

\* C20: under every interleaving, for every key the requests admitted within
\* any window of period_sec never exceed limit, and the timestamps kept for a
\* key are those of requests on that key only.
C20_RateLimitWindow ==
    /\ \A key \in Keys : \A from \in (0 - 1)..MaxClock :
          Cardinality(AdmittedIn(key, from)) <= Limit
    /\ \A key \in Keys :
          Len(rl_cache[key]) <= Cardinality({p \in Procs : rl_key[p] = key /\ LetThrough(p)})

(***************************************************************************)
(* Properties of the id generator.                                         *)
(***************************************************************************)
\* no call is in progress
Quiet == \A p \in Threads : At(p, "idle")

\* the read was made through generate_next_id, which increments
Incrementing(r) == r.func = "generate_next_id"

\* the incrementing reads of a name that have returned
NextReads(name) ==
    {i \in 1..Len(gi_returns) : gi_returns[i].name = name /\ Incrementing(gi_returns[i])}

\* the counter GeneratorId(name) reads: 0 until the first get
Counter(name) ==
    IF gi_instances[name] = 0 \/ gi_objs[gi_instances[name]].ids = NoKey THEN 0
    ELSE gi_objs[gi_instances[name]].ids

\* C21: under every interleaving of concurrent incrementing reads of one name,
\* every read returns an id, no two reads return the same id, and once the
\* reads are over the counter of the name equals their number.
C21_SerializedIds ==
    \A name \in IdNames :
        /\ \A i \in NextReads(name) : ~gi_returns[i].raised
        /\ \A i, j \in NextReads(name) :
              i # j => gi_returns[i].value # gi_returns[j].value
        /\ Quiet => Counter(name) = Cardinality(NextReads(name))
\* C30: run one call at a time, the k-th incrementing read of a name returns k,
\* a non-incrementing read returns the number of incrementing reads of the
\* name before it and changes no counter, every GeneratorId(name) of one name is
\* the same object, and the counter of a name counts the incrementing reads of
\* that name only.
C30_SequentialCounter ==
    /\ \A i \in 1..Len(gi_returns) :
          LET r      == gi_returns[i]
              before == Cardinality({j \in NextReads(r.name) : j < i})
          IN  /\ ~r.raised
              /\ r.value = (IF Incrementing(r) THEN before + 1 ELSE before)
              /\ r.self = gi_instances[r.name]
    /\ Quiet => \A name \in IdNames : Counter(name) = Cardinality(NextReads(name))

\* next(a), string(a), next(b), next(a) return 1, 1, 1, 2
C30_Witness ==
    /\ Quiet
    /\ Len(gi_returns) = 4
    /\ [i \in 1..4 |-> <<gi_returns[i].func, gi_returns[i].name, gi_returns[i].value>>]
          = << <<"generate_next_id", <<"a">>, 1>>, <<"generate_string", <<"a">>, 1>>,
               <<"generate_next_id", <<"b">>, 1>>, <<"generate_next_id", <<"a">>, 2>> >>
    /\ gi_returns[2].out = <<"T", "e", "s", "t", " ", "1">>
    /\ gi_returns[4].out = <<"3">>

(***************************************************************************)
(* Properties of schema validation.                                        *)
(***************************************************************************)
\* what phase n of validate_data raises on the payload when run on its own:
\* 1 required fields, 2 nested objects, 3 type and enum of each property,
\* 4 conditional rules
PhaseResult(n) ==
    CASE n = 1 -> _validate_required_fields(vd_data, vd_schema)
      [] n = 2 -> _validate_nested_fields(vd_data, vd_schema)
      [] n = 3 -> ValidateProperties(vd_data, SchemaGet(vd_schema, <<"p", "r", "o", "p", "e", "r", "t", "i", "e", "s">>), 1)
      [] n = 4 -> _validate_conditional_requirements(vd_data, vd_schema)

FailingPhases == {n \in 1..4 : IsExc(PhaseResult(n))}

\* the messages the raise statements of a phase are written with
PhaseTexts(n) ==
    CASE n = 1 -> {"required"}
      [] n = 2 -> {"nested required"}
      [] n = 3 -> {"type", "enum"}
      [] n = 4 -> {"then required"}

\* the payload is rejected as a validation failure with a message of phase n
Reports(n) ==
    /\ vd_result.t = "exc"
    /\ vd_result.exc = "HTTPException"
    /\ vd_result.status_code = 400
    /\ vd_result.detail.message.text \in PhaseTexts(n)

\* C23: a payload that violates a rule of an earlier phase and a rule of a
\* later phase is rejected with a message of the earliest phase it violates.
C23_FirstPhaseReported ==
    (vd_pc = "done" /\ Cardinality(FailingPhases) >= 2) => Reports(Min(FailingPhases))

\* the payload is {a: value} and the schema declares the type of a only
TypeCase(type, value) ==
    /\ vd_data = << <<<<"a">>, value>> >>
    /\ vd_schema = << <<<<"p", "r", "o", "p", "e", "r", "t", "i", "e", "s">>,
                        DictV(<< <<<<"a">>, DictV(<< <<<<"t", "y", "p", "e">>, StrV(type)>> >>)>> >>)>> >>

\* the values the type is said to accept
Accepts(type, value) ==
    CASE type \in {<<"i", "n", "t">>, <<"i", "n", "t", "e", "g", "e", "r">>} ->
             \/ value.t \in {"int", "float"}
             \/ value.t = "str" /\ value.v # <<>> /\ \A i \in 1..Len(value.v) : IsDigit(value.v[i])
      [] type = <<"n", "u", "m", "b", "e", "r">>  -> value.t \in {"int", "float"}
      [] type = <<"b", "o", "o", "l", "e", "a", "n">> -> value.t = "bool"
      [] type \in {<<"s", "t", "r">>, <<"s", "t", "r", "i", "n", "g">>} -> value.t = "str"

\* C24: the type check of a property ends in acceptance, exactly for the values
\* the type accepts, or in a validation failure answered as a client error,
\* whatever the value is.
C24_TypeCheckTotal ==
    \A type \in TypeNames \ {<<"o", "b", "j", "e", "c", "t">>}, value \in SchemaValues :
        (vd_pc = "done" /\ TypeCase(type, value)) =>
            IF Accepts(type, value) THEN vd_result = None
            ELSE /\ vd_result.t = "exc"
                 /\ vd_result.exc \in {"ValidationError", "HTTPException"}
                 /\ vd_result.exc = "HTTPException" => vd_result.status_code = 400

\* the rules of allOf
Rules == SchemaGet(vd_schema, <<"a", "l", "l", "O", "f">>)

\* the if clause of the rule holds: every property it names is in the payload
\* and equals the const it declares
IfHolds(rule) ==
    /\ DictHas(rule, <<"i", "f">>)
    /\ \A prop \in Range(SchemaGet(DictGet(rule, <<"i", "f">>).v, <<"p", "r", "o", "p", "e", "r", "t", "i", "e", "s">>)) :
          /\ DictHas(vd_data, prop[1])
          /\ DictHas(prop[2].v, <<"c", "o", "n", "s", "t">>)
                => py_eq(DictGet(vd_data, prop[1]), DictGet(prop[2].v, <<"c", "o", "n", "s", "t">>))

\* the fields of then.required the payload lacks
ThenMissing(rule) ==
    {field \in Range(SchemaGet(SchemaGet(rule, <<"t", "h", "e", "n">>), <<"r", "e", "q", "u", "i", "r", "e", "d">>)) :
        ~DictHas(vd_data, field.v)}

\* some rule whose if clause holds requires a field the payload lacks
Imposed == \E i \in 1..Len(Rules) : IfHolds(Rules[i].v) /\ ThenMissing(Rules[i].v) # {}

\* C25: validation fails when a rule of allOf whose if clause holds requires a
\* field the payload lacks, and a payload that passes the three earlier phases
\* is accepted when no such rule does.
C25_ConditionalRules ==
    vd_pc = "done" =>
        /\ Imposed => IsExc(vd_result)
        /\ (~Imposed /\ FailingPhases \cap 1..3 = {}) => vd_result = None

\* k = "x" makes the if clause of the second of two rules hold, b is required
\* by it and absent, and nothing else is wrong with the payload
C25_Witness ==
    /\ vd_pc = "done"
    /\ Len(Rules) = 2
    /\ ~IfHolds(Rules[1].v)
    /\ IfHolds(Rules[2].v)
    /\ ThenMissing(Rules[2].v) = {StrV(<<"b">>)}
    /\ FailingPhases = {4}
    /\ IsExc(vd_result)

(***************************************************************************)
(* Properties of the registry as a whole.                                  *)
(***************************************************************************)
\* the pairs of distinct declared paths of the registry that both match one
\* concrete request path
AmbiguousPairs ==
    {pair \in Range(DictKeys(routes_dict)) \X Range(DictKeys(routes_dict)) :
        /\ pair[1] # pair[2]
        /\ \E request_path \in LookupPaths :
              /\ StructuralMatch(pair[1], request_path)
              /\ StructuralMatch(pair[2], request_path)}

\* a warning logged by load_configs names one of the two paths
Flagged(pair) == \E i \in 1..Len(warnings) : warnings[i][1] \in {pair[1], pair[2]}

\* C26: once the registry is loaded, every pair of declared paths that both
\* match some concrete request path has been flagged by a warning.
C26_AmbiguityFlagged ==
    ld_pc = "loaded" => \A pair \in AmbiguousPairs : Flagged(pair)

(***************************************************************************)
(* Properties of substitution.                                             *)
(***************************************************************************)
HasPrefix(s, prefix) == Len(prefix) <= Len(s) /\ SubSeq(s, 1, Len(prefix)) = prefix

\* the tokens of the declared template that start at the head of s: a
\* placeholder of a param, or the marker of a generator
ParamsAt(s, items) == {i \in 1..Len(items) : HasPrefix(s, Placeholder(items[i][1]))}
MarkersAt(s) ==
    {i \in 1..Len(AVAILABLE_FUNCTIONS) : HasPrefix(s, Marker(AVAILABLE_FUNCTIONS[i].name))}

\* one pass over the declared template: each token written in it is replaced
\* by its value, and the inserted text is not looked at again
RECURSIVE SinglePass(_, _)
SinglePass(s, items) ==
    IF s = <<>> THEN <<>>
    ELSE IF ParamsAt(s, items) # {}
    THEN LET i == Min(ParamsAt(s, items))
         IN  py_str(items[i][2])
             \o SinglePass(SubSeq(s, Len(Placeholder(items[i][1])) + 1, Len(s)), items)
    ELSE IF MarkersAt(s) # {}
    THEN LET name == AVAILABLE_FUNCTIONS[Min(MarkersAt(s))].name
         IN  py_str(Generated(name, settings.WEBHOOK_URL))
             \o SinglePass(SubSeq(s, Len(Marker(name)) + 1, Len(s)), items)
    ELSE <<Head(s)>> \o SinglePass(Tail(s), items)

\* C27: a string template that renders to a string renders to what one pass
\* over the declared template gives; text inserted from a param value is not
\* substituted again.
C27_SinglePass ==
    (tp_pc = "done" /\ tp_data.t = "str" /\ tp_result.t = "str")
        => tp_result.v = SinglePass(tp_data.v, tp_params)

\* kept is what remains of old after dropping some of its entries
RECURSIVE IsSubSeq(_, _)
IsSubSeq(kept, old) ==
    IF kept = <<>> THEN TRUE
    ELSE IF old = <<>> THEN FALSE
    ELSE IF Head(kept) = Head(old) THEN IsSubSeq(Tail(kept), Tail(old))
    ELSE IsSubSeq(kept, Tail(old))

\* the step in which the request of p is answered 429, is let through, or has
\* its handler return or raise
Rejects(p)  == rl_pc[p] = "filtered" /\ rl_pc'[p] = "rejected"
Admits(p)   == rl_pc[p] = "filtered" /\ rl_pc'[p] = "admitted"
Finishes(p) == rl_pc[p] = "admitted" /\ rl_pc'[p] \in {"returned", "raised"}

\* the record of the key gained one entry, the time the request read, after
\* the entries it kept
OneAdded(key, now) ==
    /\ rl_cache'[key] # <<>>
    /\ rl_cache'[key][Len(rl_cache'[key])] = now
    /\ IsSubSeq(SubSeq(rl_cache'[key], 1, Len(rl_cache'[key]) - 1), rl_cache[key])

\* C28: a rejection leaves the record of every key as it was; an admission
\* adds one entry to the record of the request's key and leaves every other
\* key as it was; the handler's outcome, answer or error, changes no record.
C28_AdmissionRecord ==
    [][\A p \in Procs :
          /\ Rejects(p) => rl_cache' = rl_cache
          /\ Admits(p) =>
                /\ OneAdded(rl_key[p], rl_now[p])
                /\ \A key \in Keys \ {rl_key[p]} : rl_cache'[key] = rl_cache[key]
          /\ Finishes(p) => rl_cache' = rl_cache]_vars

\* one request of a key was rejected and another of the same key was let
\* through and ended in an error, its entry still stored
C28_Witness ==
    \E p, q \in Procs :
        /\ rl_key[p] = rl_key[q]
        /\ rl_pc[p] = "rejected"
        /\ rl_pc[q] = "raised"
        /\ rl_cache[rl_key[q]] = <<rl_now[q]>>

\* the output of processing_result when item is the only repeat item
Alone(item) == processing_result(rp_path, rp_response, RepeatExtra(<<item>>), rp_params)

\* the items are root and one other top-level name, in either order, each with
\* a count of 1 or more and each processed without error when declared alone
MixedCase ==
    /\ Len(RepeatItems(rp_extra)) = 2
    /\ \E i, j \in 1..2 :
          /\ i # j
          /\ RepeatItems(rp_extra)[i].name = N_root
          /\ RepeatItems(rp_extra)[j].name # N_root
          /\ Len(split(RepeatItems(rp_extra)[j].name, ".")) = 1
    /\ \A i \in 1..2 :
          /\ \E n \in 1..3 : Declares(RepeatItems(rp_extra)[i], n)
          /\ ~IsExc(Alone(RepeatItems(rp_extra)[i]))

\* the values the output holds at its top level or in a top-level array
Members(v) ==
    CASE v.t = "list" -> Range(v.v)
      [] v.t = "dict" -> UNION {IF v.v[i][2].t = "list" THEN Range(v.v[i][2].v) ELSE {}
                                   : i \in 1..Len(v.v)}
      [] OTHER -> {}

\* the output holds what the item contributes: for root the elements of the
\* flattened array, for another name the entry stored under it
Carried(item) ==
    IF item.name = N_root
    THEN Range(Alone(item).v) \subseteq Members(rp_result)
    ELSE rp_result.t = "dict" /\ DictHas(rp_result.v, item.name)

\* C29: with root and another top-level name among the repeat items, in either
\* order, processing_result ends without error and its output holds the
\* contribution of both items.
C29_MixedRoot ==
    (rp_pc = "done" /\ MixedCase) =>
        /\ ~IsExc(rp_result)
        /\ \A i \in 1..2 : Carried(RepeatItems(rp_extra)[i])

(***************************************************************************)
(* Properties of the stored declaration.                                   *)
(***************************************************************************)
\* C22: whatever requests have been handled or are being handled, the
\* route-method refers to the response object load_configs stored, and every
\* object of the declaration holds what it held then; rendering, repeat
\* expansion and the in-place merge touch only objects of the request.
C22_DeclarationUnchanged ==
    /\ al_response = al_stored.response
    /\ Len(al_heap) >= Len(al_stored.heap)
    /\ \A a \in 1..Len(al_stored.heap) : al_heap[a] = al_stored.heap[a]

\* an earlier request has returned, and the request at hand has extended in
\* place the users list of its own copy of {"chats": [{"users": ["u"]}]}, which
\* now holds three entries, the stored list still holding one
C22_Witness ==
    /\ al_pc = "collect"
    /\ al_frame.outcome = "returned"
    /\ al_req.nested /\ al_req.item_name = K_chats
    /\ al_stored.response = Ref(4)
    /\ al_heap[1] = ListV(<<StrV(<<"u">>)>>)
    /\ \E a \in (Len(al_stored.heap) + 1)..Len(al_heap) :
          al_heap[a].t = "list" /\ Len(al_heap[a].v) = 3
=============================================================================
